---- MODULE Spec2Model ----
(***************************************************************************)
(* Session / pipeline coordination core of Decluttered.ai.                 *)
(*                                                                         *)
(*   - the pipeline coordinator agent (agents/pipeline_coordinator_agent)  *)
(*     with its periodic cleanup sweep and a wall clock;                   *)
(*   - the stage agents it talks to (image recognition, price scraper,     *)
(*     marketplace listing) and the messages in flight between them;       *)
(*   - the report coordinator agent (agents/report_coordinator_agent);     *)
(*   - the HTTP wrapper's session table (friend_api_wrapper).              *)
(*                                                                         *)
(* Time is counted in seconds.  Strings that the code builds with          *)
(* f-strings are kept as records of their parts.                           *)
(***************************************************************************)
EXTENDS Integers, Sequences, FiniteSets, TLC

(* ------------------------------------------------------------------ *)
(* Bounds of the model                                                  *)
(* ------------------------------------------------------------------ *)
\* the clock stops here
MaxTime == 1500
\* the clock advances in steps of this many seconds
TimeStep == 300
\* longest steps_completed list a handler still appends to
MaxSteps == 4
\* cap of the completed_sessions / failed_sessions counters
MaxCount == 2
MaxSessions == 2
MaxImages == 2
\* the calls of POST /upload that a run makes
MaxUploads == 2
\* the clock of the runs of the Facebook login agent stops here
MaxLoginTime == 900
MaxBoxes == 3
\* the largest width and height of an image whose crop boxes are enumerated
MaxSide == 7
MaxNames == 2

(* ------------------------------------------------------------------ *)
(* Program constants                                                    *)
(* ------------------------------------------------------------------ *)
\* on_interval(period=300.0) of cleanup_old_sessions
SWEEP_PERIOD == 300
\* the reading 0 of time.time(), the initial last_login_attempt and
\* last_status_check, on the clock of the model, whose origin is the start of
\* the run
EPOCH == -100000
\* "if current_time - facebook_state.last_login_attempt < 300"
LOGIN_WINDOW == 300
\* "if current_time - facebook_state.last_status_check > 60"
STATUS_MAX_AGE == 60
\* on_interval(period=300.0) of status_check_interval
STATUS_CHECK_PERIOD == 300
\* "session.completed and session_age > 300"
COMPLETED_MAX_AGE == 300
\* "not session.completed and session_age > 900"
STALLED_MAX_AGE == 900

\* session ids carried by stage results
SessionIds == {"s1", "s2"}
\* session ids carried by CompletePipelineRequest: "s2" is never requested,
\* a result that carries it is a result for an unknown session
RequestIds == {"s1"}

\* Python's None, for string-valued fields
NoneStr == "None"
\* Python's None, for message-valued fields
NoneMsg == [type |-> "None"]
\* Python's None, for the error_message of a session or of a final result
NoReason == [stage |-> NoneStr, detail |-> NoneStr]

\* agents (the address constants of the code, by the agent they name)
COORDINATOR == "pipeline_coordinator_agent"
\* IMAGE_RECOGNITION_ADDRESS
IMAGE_RECOGNITION_ADDRESS == "image_recognition_agent"
\* PRICE_SCRAPER_ADDRESS of the image recognition agent
PRICE_SCRAPER_ADDRESS == "price_scraper_agent"
\* MARKETPLACE_LISTING_ADDRESS of the price scraper agent
MARKETPLACE_LISTING_ADDRESS == "marketplace_listing_agent"
\* EBAY_IMPROVED_ADDRESS of the marketplace listing agent
EBAY_IMPROVED_ADDRESS == "ebay_improved_listing_agent"
\* the agent that sends CompletePipelineRequest
CLIENT == "client"
\* the report coordinator agent
REPORT_COORDINATOR == "report_coordinator"
\* the API wrapper agent
API_WRAPPER == "friend_api_wrapper"
\* AGENT_ADDRESSES["detection"] of the API wrapper
DETECTION_ADDRESS == "detection"
\* AI_EVALUATOR_ADDRESS of the detection agent
AI_EVALUATOR_ADDRESS == "ai_evaluator"
\* IMAGE_PROCESSOR_ADDRESS of the AI evaluator
IMAGE_PROCESSOR_ADDRESS == "image_processor"
\* the web API
WEB_API == "web_api_agent"
\* the Facebook login agent
FACEBOOK_LOGIN == "facebook_login_agent"

\* f"session_{int(time.time())}" of start_system_coordination, t being the
\* reading of the clock
ReportSessionId(t) == "session_" \o ToString(t)
\* session ids that start_system_coordination generates before the clock moves
ReportIds == {ReportSessionId(0)}
\* session ids carried by the ProcessingResult messages sent to the report
\* coordinator: a generated one, one never generated, and the empty string
\* that current_session holds before the first StartSystem
ReportMsgIds == ReportIds \cup {"r2", ""}
\* session ids that process_image generates
ApiIds == {"a1"}
\* session ids carried by the result messages sent to the API wrapper
ApiMsgIds == ApiIds \cup {"a2"}

VARIABLES
  \* pipeline_state.active_sessions : session id -> PipelineSession
  active_sessions,
  \* pipeline_state.completed_sessions
  completed_sessions,
  \* pipeline_state.failed_sessions
  failed_sessions,
  \* time.time()
  now,
  \* the time at which the next cleanup_old_sessions run is due
  next_sweep,
  \* messages sent with ctx.send and not yet handled
  network,
  \* the CompletePipelineResult composed by finalize_pipeline_session in the
  \* last step, NoneMsg when the step composed none (history)
  last_result,
  \* the message or timer event handled by the last step (history)
  last_event,
  \* coordinator_state.sessions of the report coordinator : id -> session data
  sessions,
  \* coordinator_state.current_session
  current_session,
  \* coordinator_state.total_sessions
  total_sessions,
  \* coordinator_state.global_seen_objects
  global_seen_objects,
  \* coordinator_state.processing_results
  processing_results,
  \* the report files written by write_analysis_report : session id of the
  \* file name -> [entries, written_at], entries being the ProcessingResult
  \* messages whose report entries the file holds
  report_files,
  \* the global `sessions` of the API wrapper : id -> session data
  api_sessions,
  \* the agents whose startup event has run
  started,
  \* detection_state.yolo_model is not None
  yolo_model,
  \* detection_state: processed_files, images_processed, current_session
  detection_state,
  \* evaluator_state.gemini_model is not None
  gemini_model,
  \* evaluator_state: images_evaluated, current_session, api_calls_made
  evaluator_state,
  \* processor_state: images_processed, total_crops_created, current_session,
  \* session_crop_count
  processor_state,
  \* the image files on disk (os.path.exists)
  files,
  \* the files in CROPPED_FOLDER
  cropped_folder,
  \* processing_sessions of the web API : id -> ProcessingSession
  processing_sessions,
  \* the calls of POST /upload in their order, each with the background task
  \* process_uploaded_files it queued: [session_id, pc, sent, object], where
  \* pc is the position of the task ("rejected" when none was queued), sent
  \* tells that its CapturedImage went out and object names the
  \* ProcessingSession object it holds (0 before it has read the store)
  web_tasks,
  \* facebook_state of the Facebook login agent: price_scraper_logged_in,
  \* marketplace_listing_logged_in, pending_requests (the keys of the dict in
  \* insertion order), login_attempts, last_login_attempt, last_status_check
  facebook_state,
  \* the clock readings of the handlers that called attempt_facebook_login,
  \* in their order (history)
  login_calls,
  \* the time at which the next status_check_interval run is due
  next_status_check

\* the state of the report coordinator
reportVars == <<sessions, current_session, total_sessions, global_seen_objects,
                processing_results, report_files>>

\* the state of the API wrapper
apiVars == <<api_sessions>>

\* the state of the detection agent, the AI evaluator and the image processor
agentVars == <<started, yolo_model, detection_state, gemini_model,
               evaluator_state, processor_state, cropped_folder>>

\* the state of the web API
webVars == <<processing_sessions, web_tasks>>

\* the state of the Facebook login agent
fbVars == <<facebook_state, login_calls, next_status_check>>

\* the state of the image pipeline apart from the files on disk
visionVars == <<agentVars, webVars>>

vars == <<active_sessions, completed_sessions, failed_sessions, now, next_sweep,
          network, last_result, last_event, reportVars, apiVars, visionVars,
          files, fbVars>>

coordVars == <<active_sessions, completed_sessions, failed_sessions>>

(* ------------------------------------------------------------------ *)
(* Messages                                                             *)
(* ------------------------------------------------------------------ *)
\* error texts a stage agent may report
ErrorTexts == {"api unavailable"}

\* ImageRecognitionResult: success with a product name, success without,
\* or failure with an error text
ImageRecognitionResults ==
  {[type |-> "ImageRecognitionResult", session_id |-> s, success |-> TRUE,
    product_name |-> p, error_message |-> NoneStr] :
      s \in SessionIds, p \in {"lamp", NoneStr}}
  \cup
  {[type |-> "ImageRecognitionResult", session_id |-> s, success |-> FALSE,
    product_name |-> NoneStr, error_message |-> e] :
      s \in SessionIds, e \in ErrorTexts}

\* PriceResearchResult: success with n comparables, or failure
PriceResearchResults ==
  {[type |-> "PriceResearchResult", session_id |-> s, success |-> TRUE,
    comps |-> n, error_message |-> NoneStr] : s \in SessionIds, n \in {0, 1}}
  \cup
  {[type |-> "PriceResearchResult", session_id |-> s, success |-> FALSE,
    comps |-> 0, error_message |-> e] : s \in SessionIds, e \in ErrorTexts}

\* ListingCreationResult: success or failure
ListingCreationResults ==
  {[type |-> "ListingCreationResult", session_id |-> s, success |-> TRUE,
    error_message |-> NoneStr] : s \in SessionIds}
  \cup
  {[type |-> "ListingCreationResult", session_id |-> s, success |-> FALSE,
    error_message |-> e] : s \in SessionIds, e \in ErrorTexts}

CompletePipelineRequestMsg(s) ==
  [type |-> "CompletePipelineRequest", session_id |-> s]

ImageRecognitionRequestMsg(s) ==
  [type |-> "ImageRecognitionRequest", session_id |-> s]

\* a message in flight: ctx.send(to, msg) by agent `from`
Envelope(to, from, msg) == [to |-> to, sender |-> from, msg |-> msg]

(* ------------------------------------------------------------------ *)
(* Pipeline coordinator                                                 *)
(* ------------------------------------------------------------------ *)
\* PipelineSession.__init__.  finalized_at is a history field: the time.time()
\* that finalize_pipeline_session reads, which the code keeps only inside the
\* total_execution_time_ms of the composed result; -1 before finalization
PipelineSession(s) ==
  [request |-> CompletePipelineRequestMsg(s),
   start_time |-> now,
   steps_completed |-> << >>,
   image_recognition_result |-> NoneMsg,
   price_research_result |-> NoneMsg,
   listing_creation_result |-> NoneMsg,
   error_message |-> NoReason,
   completed |-> FALSE,
   finalized_at |-> -1]

\* active_sessions.get(session_id) is not None
Tracked(s) == s \in DOMAIN active_sessions

\* dict assignment active_sessions[s] = session
Put(store, s, session) ==
  [k \in DOMAIN store \cup {s} |-> IF k = s THEN session ELSE store[k]]

\* dict.pop(s, None)
Pop(store, removed) ==
  [k \in DOMAIN store \ removed |-> store[k]]

\* a final result composed from the failing stage alone
CompletePipelineResult_last_stage_only(session, success, error_message) ==
  [type |-> "CompletePipelineResult",
   session_id |-> session.request.session_id,
   success |-> success,
   steps_completed |-> session.steps_completed,
   image_recognition |-> NoneMsg,
   price_research |-> NoneMsg,
   listing_creation |-> session.listing_creation_result,
   error_message |-> error_message,
   total_execution_time_ms |-> (now - session.start_time) * 1000]

\* the CompletePipelineResult composed by finalize_pipeline_session
CompletePipelineResult(session, success, error_message) ==
  [type |-> "CompletePipelineResult",
   session_id |-> session.request.session_id,
   success |-> success,
   steps_completed |-> session.steps_completed,
   image_recognition |-> session.image_recognition_result,
   price_research |-> session.price_research_result,
   listing_creation |-> session.listing_creation_result,
   error_message |-> error_message,
   total_execution_time_ms |-> (now - session.start_time) * 1000]


\* finalize_pipeline_session without its "if session.completed: return"
finalize_without_guard(s, session, success, error_message) ==
  /\ active_sessions' =
       Put(active_sessions, s,
           [session EXCEPT !.completed = TRUE, !.finalized_at = now])
  /\ last_result' = CompletePipelineResult(session, success, error_message)
  /\ IF success
       THEN /\ completed_sessions' = completed_sessions + 1
            /\ UNCHANGED failed_sessions
       ELSE /\ failed_sessions' = failed_sessions + 1
            /\ UNCHANGED completed_sessions

\* finalize_pipeline_session(ctx, session, success, error_message), called
\* with the session object as the handler has just updated it
finalize_pipeline_session(s, session, success, error_message) ==
  IF session.completed
    THEN /\ active_sessions' = Put(active_sessions, s, session)
         /\ UNCHANGED <<completed_sessions, failed_sessions>>
         /\ last_result' = NoneMsg
    ELSE /\ active_sessions' =
              Put(active_sessions, s,
                  [session EXCEPT !.completed = TRUE, !.finalized_at = now])
         /\ last_result' = CompletePipelineResult(session, success, error_message)
         /\ IF success
              THEN /\ completed_sessions' = completed_sessions + 1
                   /\ UNCHANGED failed_sessions
              ELSE /\ failed_sessions' = failed_sessions + 1
                   /\ UNCHANGED completed_sessions

\* a handler that returns without calling finalize
KeepWaiting(s, session) ==
  /\ active_sessions' = Put(active_sessions, s, session)
  /\ UNCHANGED <<completed_sessions, failed_sessions>>
  /\ last_result' = NoneMsg

\* f"<stage> failed: {msg.error_message}"
FailureReason(stage, detail) == [stage |-> stage, detail |-> detail]

\* a start handler that leaves the session in the store when the try block
\* raises
handle_complete_pipeline_request_keeping(sender, msg, send_ok) ==
  LET s == msg.session_id
      session == PipelineSession(s)
  IN /\ active_sessions' =
          Put(active_sessions, s,
              IF send_ok
                THEN [session EXCEPT
                        !.steps_completed = <<"image_recognition_initiated">>]
                ELSE session)
     /\ network' = network \cup
          (IF send_ok
             THEN {Envelope(IMAGE_RECOGNITION_ADDRESS, COORDINATOR,
                            ImageRecognitionRequestMsg(s))}
             ELSE {Envelope(sender, COORDINATOR,
                     [type |-> "CompletePipelineResult", session_id |-> s,
                      success |-> FALSE,
                      error_message |->
                        FailureReason("Pipeline initiation failed",
                                      "exception")])})
     /\ completed_sessions' = completed_sessions
     /\ failed_sessions' = IF send_ok THEN failed_sessions
                                      ELSE failed_sessions + 1
     /\ last_result' = NoneMsg

\* handle_complete_pipeline_request; send_ok = FALSE is the path on which the
\* try block raises
handle_complete_pipeline_request(sender, msg, send_ok) ==
  LET s == msg.session_id
      session == PipelineSession(s)
  IN IF send_ok
       THEN /\ active_sessions' =
                 Put(active_sessions, s,
                     [session EXCEPT
                        !.steps_completed = <<"image_recognition_initiated">>])
            /\ network' = network \cup
                 {Envelope(IMAGE_RECOGNITION_ADDRESS, COORDINATOR,
                           ImageRecognitionRequestMsg(s))}
            /\ UNCHANGED <<completed_sessions, failed_sessions>>
            /\ last_result' = NoneMsg
       ELSE /\ network' = network \cup
                 {Envelope(sender, COORDINATOR,
                    [type |-> "CompletePipelineResult", session_id |-> s,
                     success |-> FALSE,
                     error_message |->
                       FailureReason("Pipeline initiation failed", "exception")])}
            /\ active_sessions' = Pop(active_sessions, {s})
            /\ failed_sessions' = failed_sessions + 1
            /\ UNCHANGED completed_sessions
            /\ last_result' = NoneMsg

\* handle_image_recognition_result
handle_image_recognition_result(msg) ==
  LET s == msg.session_id IN
  IF ~Tracked(s)
    THEN UNCHANGED coordVars /\ last_result' = NoneMsg
    ELSE LET session ==
               [active_sessions[s] EXCEPT
                  !.image_recognition_result = msg,
                  !.steps_completed = Append(@, "image_recognition_completed")]
         IN IF ~msg.success
              THEN finalize_pipeline_session(s, session, FALSE,
                     FailureReason("Image recognition failed", msg.error_message))
              ELSE IF msg.product_name = NoneStr
                THEN finalize_pipeline_session(s, session, FALSE,
                       FailureReason("No product identified in image", NoneStr))
                ELSE KeepWaiting(s, session)

\* a handler that records a failed price research result and keeps waiting
handle_price_research_result_waiting(msg) ==
  LET s == msg.session_id IN
  IF ~Tracked(s)
    THEN UNCHANGED coordVars /\ last_result' = NoneMsg
    ELSE KeepWaiting(s, [active_sessions[s] EXCEPT
                           !.price_research_result = msg,
                           !.steps_completed =
                              Append(@, "price_research_completed")])

\* handle_price_research_result
handle_price_research_result(msg) ==
  LET s == msg.session_id IN
  IF ~Tracked(s)
    THEN UNCHANGED coordVars /\ last_result' = NoneMsg
    ELSE LET session ==
               [active_sessions[s] EXCEPT
                  !.price_research_result = msg,
                  !.steps_completed = Append(@, "price_research_completed")]
         IN IF ~msg.success
              THEN finalize_pipeline_session(s, session, FALSE,
                     FailureReason("Price research failed", msg.error_message))
              ELSE KeepWaiting(s, session)

\* handle_listing_creation_result
handle_listing_creation_result(msg) ==
  LET s == msg.session_id IN
  IF ~Tracked(s)
    THEN UNCHANGED coordVars /\ last_result' = NoneMsg
    ELSE LET session ==
               [active_sessions[s] EXCEPT
                  !.listing_creation_result = msg,
                  !.steps_completed = Append(@, "listing_creation_completed")]
         IN IF ~msg.success
              THEN finalize_pipeline_session(s, session, FALSE,
                     FailureReason("Listing creation failed", msg.error_message))
              ELSE finalize_pipeline_session(s, session, TRUE, NoReason)

\* session_age = current_time - session.start_time
SessionAge(session) == now - session.start_time

\* the ids cleanup_old_sessions collects for removal as completed and old
CompletedToRemove ==
  {s \in DOMAIN active_sessions :
     active_sessions[s].completed
       /\ SessionAge(active_sessions[s]) > COMPLETED_MAX_AGE}

\* the ids cleanup_old_sessions collects for removal as stalled
StalledToRemove ==
  {s \in DOMAIN active_sessions :
     ~active_sessions[s].completed
       /\ SessionAge(active_sessions[s]) > STALLED_MAX_AGE}

\* cleanup_old_sessions without its "elif not session.completed" branch
cleanup_completed_only ==
  /\ active_sessions' = Pop(active_sessions, CompletedToRemove)
  /\ UNCHANGED <<completed_sessions, failed_sessions, network>>
  /\ last_result' = NoneMsg

\* a sweep that sends the request of a stalled session again
cleanup_old_sessions_retrying ==
  /\ active_sessions' =
       Pop(active_sessions, CompletedToRemove \cup StalledToRemove)
  /\ failed_sessions' = failed_sessions + Cardinality(StalledToRemove)
  /\ network' = network \cup
       {Envelope(IMAGE_RECOGNITION_ADDRESS, COORDINATOR,
                 ImageRecognitionRequestMsg(s)) : s \in StalledToRemove}
  /\ UNCHANGED completed_sessions
  /\ last_result' = NoneMsg

\* cleanup_old_sessions
cleanup_old_sessions ==
  /\ active_sessions' =
       Pop(active_sessions, CompletedToRemove \cup StalledToRemove)
  /\ failed_sessions' = failed_sessions + Cardinality(StalledToRemove)
  /\ UNCHANGED <<completed_sessions, network>>
  /\ last_result' = NoneMsg


(* ------------------------------------------------------------------ *)
(* Steps of the coordinator, the clock and the environment              *)
(* ------------------------------------------------------------------ *)
\* the state after construction of PipelineState, at agent start
Init ==
  /\ active_sessions = << >>
  /\ completed_sessions = 0
  /\ failed_sessions = 0
  /\ now = 0
  /\ next_sweep = SWEEP_PERIOD
  /\ network = {}
  /\ last_result = NoneMsg
  /\ last_event = [type |-> "startup"]
  /\ sessions = << >>
  /\ current_session = ""
  /\ total_sessions = 0
  /\ global_seen_objects = {}
  /\ processing_results = << >>
  /\ report_files = << >>
  /\ api_sessions = << >>
  /\ started = {}
  /\ yolo_model = FALSE
  /\ detection_state = [processed_files |-> {}, images_processed |-> 0,
                        current_session |-> ""]
  /\ gemini_model = FALSE
  /\ evaluator_state = [images_evaluated |-> 0, current_session |-> "",
                        api_calls_made |-> 0]
  /\ processor_state = [images_processed |-> 0, total_crops_created |-> 0,
                        current_session |-> "", session_crop_count |-> 0]
  /\ files = {}
  /\ cropped_folder = {}
  /\ processing_sessions = << >>
  /\ web_tasks = << >>
  /\ facebook_state = [price_scraper_logged_in |-> FALSE,
                       marketplace_listing_logged_in |-> FALSE,
                       pending_requests |-> << >>,
                       login_attempts |-> 0,
                       last_login_attempt |-> EPOCH,
                       last_status_check |-> EPOCH]
  /\ login_calls = << >>
  /\ next_status_check = STATUS_CHECK_PERIOD

\* handlers append to steps_completed only below the bound
RoomFor(s) ==
  Tracked(s) => Len(active_sessions[s].steps_completed) < MaxSteps

\* requests arrive while the counters are below their cap and the clock
\* leaves room for the sweep that reaps a stalled session
MayStart ==
  /\ completed_sessions + failed_sessions < MaxCount
  /\ now + STALLED_MAX_AGE + SWEEP_PERIOD <= MaxTime

\* a client sends CompletePipelineRequest and the coordinator handles it
CompletePipelineRequest ==
  \E s \in RequestIds, send_ok \in BOOLEAN :
    /\ MayStart
    /\ handle_complete_pipeline_request(CLIENT, CompletePipelineRequestMsg(s),
                                        send_ok)
    /\ last_event' = [type |-> "CompletePipelineRequest", session_id |-> s,
                      send_ok |-> send_ok]
    /\ UNCHANGED <<now, next_sweep, reportVars, apiVars, fbVars, visionVars, files>>

\* an ImageRecognitionResult reaches the coordinator (for a requested id,
\* tracked or not, in any order, any number of times)
ImageRecognitionResult ==
  \E msg \in ImageRecognitionResults :
    /\ msg.session_id \in RequestIds
    /\ RoomFor(msg.session_id)
    /\ handle_image_recognition_result(msg)
    /\ last_event' = msg
    /\ UNCHANGED <<now, next_sweep, network, reportVars, apiVars, fbVars, visionVars, files>>

\* a PriceResearchResult reaches the coordinator
PriceResearchResult ==
  \E msg \in PriceResearchResults :
    /\ msg.session_id \in RequestIds
    /\ RoomFor(msg.session_id)
    /\ handle_price_research_result(msg)
    /\ last_event' = msg
    /\ UNCHANGED <<now, next_sweep, network, reportVars, apiVars, fbVars, visionVars, files>>

\* a ListingCreationResult reaches the coordinator
ListingCreationResult ==
  \E msg \in ListingCreationResults :
    /\ msg.session_id \in RequestIds
    /\ RoomFor(msg.session_id)
    /\ handle_listing_creation_result(msg)
    /\ last_event' = msg
    /\ UNCHANGED <<now, next_sweep, network, reportVars, apiVars, fbVars, visionVars, files>>

\* the interval timer fires cleanup_old_sessions when it is due
Sweep ==
  /\ now >= next_sweep
  /\ cleanup_old_sessions
  /\ next_sweep' = next_sweep + SWEEP_PERIOD
  /\ last_event' = [type |-> "cleanup_old_sessions",
                    completed |-> CompletedToRemove,
                    stalled |-> StalledToRemove]
  /\ UNCHANGED <<now, reportVars, apiVars, fbVars, visionVars, files>>

\* time passes; a due sweep runs before the clock moves on
Tick ==
  /\ now + TimeStep <= MaxTime
  /\ now < next_sweep
  /\ now' = now + TimeStep
  /\ last_event' = [type |-> "tick"]
  /\ UNCHANGED <<coordVars, next_sweep, network, reportVars, apiVars, fbVars, visionVars, files>>
  /\ last_result' = NoneMsg

Next ==
  \/ CompletePipelineRequest
  \/ ImageRecognitionResult
  \/ PriceResearchResult
  \/ ListingCreationResult
  \/ Sweep
  \/ Tick

\* the coordinator under arbitrary delivery of requests and stage results
Spec == Init /\ [][Next]_vars

\* the same, with the clock advancing and the interval timer firing
LiveSpec == Spec /\ WF_vars(Tick) /\ WF_vars(Sweep)

(* ------------------------------------------------------------------ *)
(* Stage agents and the pipeline as deployed                            *)
(* ------------------------------------------------------------------ *)
PriceResearchRequestMsg(s) ==
  [type |-> "PriceResearchRequest", session_id |-> s]

ListingRequestMsg(s, platforms) ==
  [type |-> "ListingRequest", session_id |-> s, platforms |-> platforms]

\* what the recognition API call yields: agent finds the API down; a product
\* is identified; ok without product_name; ok false, HTTP error, timeout or
\* exception; a product is identified and an exception is raised in the try
\* block after the result was sent, while the next stage is triggered
RecognitionOutcomes ==
  {"unavailable", "identified", "no_product", "api_error", "trigger_raises"}

\* the outcomes with which the try block raises after its success result
\* was sent
RaisesAfterSend == {"trigger_raises"}

\* the ImageRecognitionResult the agent builds for an outcome
RecognitionResult(s, outcome) ==
  [type |-> "ImageRecognitionResult", session_id |-> s,
   success |-> outcome \in {"identified", "no_product", "trigger_raises"},
   product_name |-> IF outcome \in {"identified", "trigger_raises"}
                      THEN "lamp" ELSE NoneStr,
   error_message |-> IF outcome \in {"identified", "no_product",
                                      "trigger_raises"}
                       THEN NoneStr ELSE "api unavailable"]

\* an agent that triggers the price research whenever the call succeeded
process_image_recognition_always_triggering(sender, msg, outcome) ==
  LET result == RecognitionResult(msg.session_id, outcome)
  IN {Envelope(sender, IMAGE_RECOGNITION_ADDRESS, result)}
     \cup
     (IF result.success
        THEN {Envelope(PRICE_SCRAPER_ADDRESS, IMAGE_RECOGNITION_ADDRESS,
                       PriceResearchRequestMsg(msg.session_id))}
        ELSE {})

\* process_image_recognition: the envelopes it sends; an exception raised
\* after the success result was sent reaches "except Exception", which sends
\* an error result
process_image_recognition(sender, msg, outcome) ==
  LET result == RecognitionResult(msg.session_id, outcome)
  IN {Envelope(sender, IMAGE_RECOGNITION_ADDRESS, result)}
     \cup
     (IF outcome \in RaisesAfterSend
        THEN {Envelope(sender, IMAGE_RECOGNITION_ADDRESS,
                       RecognitionResult(msg.session_id, "api_error"))}
      ELSE IF result.success /\ result.product_name # NoneStr
        THEN {Envelope(PRICE_SCRAPER_ADDRESS, IMAGE_RECOGNITION_ADDRESS,
                       PriceResearchRequestMsg(msg.session_id))}
        ELSE {})

\* what the price API call yields: API down or failing; comparables with a
\* summary that counts them; comparables with total_listings = 0; none;
\* comparables and an exception raised after the result was sent, while the
\* ListingRequest is built and sent
PriceOutcomes ==
  {"unavailable", "found", "found_unsummarised", "nothing", "trigger_raises"}

\* the PriceResearchResult the agent builds for an outcome
PriceResult(s, outcome) ==
  [type |-> "PriceResearchResult", session_id |-> s,
   success |-> outcome # "unavailable",
   comps |-> IF outcome \in {"found", "found_unsummarised", "trigger_raises"}
               THEN 1 ELSE 0,
   error_message |-> IF outcome = "unavailable"
                       THEN "api unavailable" ELSE NoneStr]

\* process_price_research: the envelopes it sends
process_price_research(sender, msg, outcome) ==
  LET result == PriceResult(msg.session_id, outcome)
      total_listings == IF outcome \in {"found", "trigger_raises"}
                          THEN 1 ELSE 0
  IN {Envelope(sender, PRICE_SCRAPER_ADDRESS, result)}
     \cup
     (IF outcome \in RaisesAfterSend
        THEN {Envelope(sender, PRICE_SCRAPER_ADDRESS,
                       PriceResult(msg.session_id, "unavailable"))}
      ELSE IF result.success /\ result.comps > 0 /\ total_listings > 0
        THEN {Envelope(MARKETPLACE_LISTING_ADDRESS, PRICE_SCRAPER_ADDRESS,
                ListingRequestMsg(msg.session_id, {"facebook", "ebay"}))}
        ELSE {})

\* what the listing API call yields: API down or failing; listings created;
\* listings created and an exception raised after the result was sent, while
\* the eBay request is built and sent
ListingOutcomes == {"unavailable", "created", "trigger_raises"}

\* the ListingCreationResult an agent builds for an outcome
ListingResult(s, outcome) ==
  [type |-> "ListingCreationResult", session_id |-> s,
   success |-> outcome \in {"created", "trigger_raises"},
   error_message |-> IF outcome \in {"created", "trigger_raises"}
                       THEN NoneStr ELSE "api unavailable"]

\* process_listing_creation: the envelopes it sends
process_listing_creation(sender, msg, outcome) ==
  LET result == ListingResult(msg.session_id, outcome)
  IN {Envelope(sender, MARKETPLACE_LISTING_ADDRESS, result)}
     \cup
     (IF outcome \in RaisesAfterSend
        THEN {Envelope(sender, MARKETPLACE_LISTING_ADDRESS,
                       ListingResult(msg.session_id, "unavailable"))}
      ELSE IF result.success /\ "ebay" \in msg.platforms
        THEN {Envelope(EBAY_IMPROVED_ADDRESS, MARKETPLACE_LISTING_ADDRESS,
                ListingRequestMsg(msg.session_id, {"ebay"}))}
        ELSE {})

\* process_ebay_improved_listing: the envelopes it sends
process_ebay_improved_listing(sender, msg, outcome) ==
  {Envelope(sender, EBAY_IMPROVED_ADDRESS, ListingResult(msg.session_id, outcome))}

\* the message types an agent has an on_message handler for
Handles(agent) ==
  CASE agent = COORDINATOR ->
         {"CompletePipelineRequest", "ImageRecognitionResult",
          "PriceResearchResult", "ListingCreationResult"}
    [] agent = IMAGE_RECOGNITION_ADDRESS -> {"ImageRecognitionRequest"}
    [] agent = PRICE_SCRAPER_ADDRESS -> {"PriceResearchRequest"}
    [] agent = MARKETPLACE_LISTING_ADDRESS -> {"ListingRequest"}
    [] agent = EBAY_IMPROVED_ADDRESS -> {"ListingRequest"}
    [] OTHER -> {}

\* an envelope that its addressee will handle; the others stay in its mailbox
Deliverable(e) == e.msg.type \in Handles(e.to)

\* the coordinator's dispatch of a stage result on its message model
CoordinatorDispatch(msg) ==
  CASE msg.type = "ImageRecognitionResult" -> handle_image_recognition_result(msg)
    [] msg.type = "PriceResearchResult" -> handle_price_research_result(msg)
    [] msg.type = "ListingCreationResult" -> handle_listing_creation_result(msg)

\* a stage result addressed to the coordinator is delivered to it
CoordinatorReceives ==
  \E e \in network :
    /\ e.to = COORDINATOR
    /\ e.msg.type \in Handles(COORDINATOR)
    /\ RoomFor(e.msg.session_id)
    /\ CoordinatorDispatch(e.msg)
    /\ network' = network \ {e}
    /\ last_event' = e.msg
    /\ UNCHANGED <<now, next_sweep, reportVars, apiVars, fbVars, visionVars, files>>

\* a step of a stage agent: it takes envelope e and sends `sends`
AgentStep(e, sends, outcome) ==
  /\ network' = (network \ {e}) \cup sends
  /\ last_event' = [type |-> e.msg.type, session_id |-> e.msg.session_id,
                    agent |-> e.to, outcome |-> outcome,
                    sender |-> e.sender, sends |-> sends]
  /\ last_result' = NoneMsg
  /\ UNCHANGED <<coordVars, now, next_sweep, reportVars, apiVars, fbVars, visionVars, files>>

\* the image recognition agent handles an ImageRecognitionRequest
ImageRecognitionAgent ==
  \E e \in network, outcome \in RecognitionOutcomes :
    /\ e.to = IMAGE_RECOGNITION_ADDRESS
    /\ e.msg.type = "ImageRecognitionRequest"
    /\ AgentStep(e, process_image_recognition(e.sender, e.msg, outcome), outcome)

\* the price scraper agent handles a PriceResearchRequest
PriceScraperAgent ==
  \E e \in network, outcome \in PriceOutcomes :
    /\ e.to = PRICE_SCRAPER_ADDRESS
    /\ e.msg.type = "PriceResearchRequest"
    /\ AgentStep(e, process_price_research(e.sender, e.msg, outcome), outcome)

\* the marketplace listing agent handles a ListingRequest
MarketplaceListingAgent ==
  \E e \in network, outcome \in ListingOutcomes :
    /\ e.to = MARKETPLACE_LISTING_ADDRESS
    /\ e.msg.type = "ListingRequest"
    /\ AgentStep(e, process_listing_creation(e.sender, e.msg, outcome), outcome)

\* the eBay improved listing agent handles a ListingRequest
EbayImprovedAgent ==
  \E e \in network, outcome \in ListingOutcomes \ RaisesAfterSend :
    /\ e.to = EBAY_IMPROVED_ADDRESS
    /\ e.msg.type = "ListingRequest"
    /\ AgentStep(e, process_ebay_improved_listing(e.sender, e.msg, outcome),
                 outcome)

\* a client submits an image while no message of an earlier request is in
\* an agent's mailbox
ClientRequest ==
  /\ \A e \in network : e.to = CLIENT
  /\ CompletePipelineRequest

PipelineNext ==
  \/ ClientRequest
  \/ ImageRecognitionAgent
  \/ PriceScraperAgent
  \/ MarketplaceListingAgent
  \/ EbayImprovedAgent
  \/ CoordinatorReceives
  \/ Sweep
  \/ Tick

\* the coordinator with the stage agents: every message is delivered to the
\* address it was sent to, and only there
PipelineSpec == Init /\ [][PipelineNext]_vars

(* ------------------------------------------------------------------ *)
(* The report coordinator                                               *)
(* ------------------------------------------------------------------ *)
\* StartSystem with the defaults of its message model
StartSystemMsg ==
  [type |-> "StartSystem", duration_seconds |-> 10, max_captures |-> 6]

\* the resellable_objects lists that a ProcessingResult carries
ObjectLists == {<< >>, <<"Lamp">>}

\* str.lower()
Lower(name) ==
  CASE name = "Lamp" -> "lamp"
    [] name = "Laptop" -> "laptop"
    [] name = "BOTTLE" -> "bottle"
    [] OTHER -> name

\* the set of the elements of a list
Range(list) == {list[i] : i \in DOMAIN list}

\* the file the image processor writes for a cropped object
CropFile(name) == Lower(name) \o "_0.jpg"

\* ProcessingResult messages of the image processor
ProcessingResults(ids) ==
  {[type |-> "ProcessingResult", session_id |-> s,
    resellable_objects |-> objs,
    cropped_files |-> [i \in DOMAIN objs |-> CropFile(objs[i])],
    total_objects_processed |-> Len(objs)] :
     s \in ids, objs \in ObjectLists}

\* the session data that start_system_coordination stores
NewReportSession(msg) ==
  [start_time |-> now,
   duration_seconds |-> msg.duration_seconds,
   max_captures |-> msg.max_captures,
   images_processed |-> 0,
   total_objects_found |-> 0,
   unique_objects |-> {},
   cropped_files |-> << >>,
   status |-> "active",
   end_time |-> -1]

\* start_system_coordination, session_id being the id it generates
start_system_coordination(session_id, msg) ==
  /\ current_session' = session_id
  /\ total_sessions' = total_sessions + 1
  /\ global_seen_objects' = {}
  /\ processing_results' = << >>
  /\ sessions' = Put(sessions, session_id, NewReportSession(msg))
  /\ UNCHANGED report_files

\* coordinate_processing_result
coordinate_processing_result(msg) ==
  IF current_session # msg.session_id
    THEN UNCHANGED reportVars
    ELSE IF msg.session_id \notin DOMAIN sessions
      THEN UNCHANGED reportVars
      ELSE LET session_data == sessions[msg.session_id]
               names == {Lower(n) : n \in Range(msg.resellable_objects)}
           IN /\ processing_results' = Append(processing_results, msg)
              /\ sessions' = Put(sessions, msg.session_id,
                   [session_data EXCEPT
                      !.images_processed = @ + 1,
                      !.total_objects_found = @ + msg.total_objects_processed,
                      !.cropped_files = @ \o msg.cropped_files,
                      !.unique_objects = @ \cup names])
              /\ global_seen_objects' = global_seen_objects \cup names
              /\ UNCHANGED <<current_session, total_sessions, report_files>>

\* a StartSystem message reaches the report coordinator
StartSystem ==
  LET session_id == ReportSessionId(now) IN
    /\ total_sessions < MaxSessions
    /\ start_system_coordination(session_id, StartSystemMsg)
    /\ last_event' = [type |-> "StartSystem", to |-> REPORT_COORDINATOR,
                      session_id |-> session_id]
    /\ last_result' = NoneMsg
    /\ UNCHANGED <<coordVars, now, next_sweep, network, apiVars, fbVars, visionVars,
                   files>>

\* a ProcessingResult reaches the report coordinator
ProcessingResult ==
  \E msg \in ProcessingResults(ReportMsgIds \cup {current_session}) :
    /\ Len(processing_results) < MaxImages
    /\ coordinate_processing_result(msg)
    /\ last_event' = [type |-> "ProcessingResult", to |-> REPORT_COORDINATOR,
                      session_id |-> msg.session_id, msg |-> msg]
    /\ last_result' = NoneMsg
    /\ UNCHANGED <<coordVars, now, next_sweep, network, apiVars, fbVars, visionVars,
                   files>>

\* write_analysis_report: the file named after session_id is opened with "w"
\* and holds the given entries
write_analysis_report(store, session_id, results) ==
  Put(store, session_id, [entries |-> results, written_at |-> now])

\* generate_interim_report, fired by its interval timer
generate_interim_report ==
  LET session_id == current_session
      writes == /\ session_id # ""
                /\ session_id \in DOMAIN sessions
                /\ sessions[session_id].images_processed > 0
                /\ processing_results # << >>
  IN /\ report_files' = IF writes
          THEN write_analysis_report(report_files, session_id,
                                     processing_results)
          ELSE report_files
     /\ last_event' = [type |-> "generate_interim_report",
                       session_id |-> session_id, writes |-> writes]
     /\ last_result' = NoneMsg
     /\ UNCHANGED <<sessions, current_session, total_sessions,
                    global_seen_objects, processing_results>>
     /\ UNCHANGED <<coordVars, now, next_sweep, network, apiVars, fbVars, visionVars,
                    files>>

\* the sessions that session_timeout_check finalizes: active ones that have
\* run for more than their configured duration and a buffer of 30 seconds
TimedOut ==
  {session_id \in DOMAIN sessions :
     /\ sessions[session_id].status = "active"
     /\ now - sessions[session_id].start_time
          > sessions[session_id].duration_seconds + 30}

\* finalize_session: the session data and the final report that it writes
finalize_session(session_id) ==
  [session_data |-> [sessions[session_id] EXCEPT !.status = "completed",
                                                  !.end_time = now],
   report |-> [entries |-> SelectSeq(processing_results,
                               LAMBDA r : r.session_id = session_id),
               written_at |-> now]]

\* session_timeout_check, fired by its interval timer
session_timeout_check ==
  /\ sessions' = [session_id \in DOMAIN sessions |->
       IF session_id \in TimedOut
         THEN finalize_session(session_id).session_data
         ELSE sessions[session_id]]
  /\ report_files' = [session_id \in DOMAIN report_files \cup TimedOut |->
       IF session_id \in TimedOut
         THEN finalize_session(session_id).report
         ELSE report_files[session_id]]
  /\ last_event' = [type |-> "session_timeout_check", finalized |-> TimedOut]
  /\ last_result' = NoneMsg
  /\ UNCHANGED <<current_session, total_sessions, global_seen_objects,
                 processing_results>>
  /\ UNCHANGED <<coordVars, now, next_sweep, network, apiVars, fbVars, visionVars,
                 files>>

ReportNext ==
  \/ StartSystem
  \/ ProcessingResult
  \/ generate_interim_report
  \/ session_timeout_check
  \/ Sweep
  \/ now < TimeStep /\ Tick

\* the report coordinator with its interval timers, over two readings of the
\* clock
ReportSpec == Init /\ [][ReportNext]_vars

(* ------------------------------------------------------------------ *)
(* The API wrapper                                                      *)
(* ------------------------------------------------------------------ *)
\* CapturedImage sent to the detection agent
CapturedImageMsg(s, file_path) ==
  [type |-> "CapturedImage", session_id |-> s, file_path |-> file_path,
   timestamp |-> now]

\* f"{upload_dir}/{session_id}_{file.filename}"
ApiUploadPath(session_id) == [folder |-> "api_uploads", session_id |-> session_id]

\* DetectionResult messages
DetectionResults ==
  {[type |-> "DetectionResult", session_id |-> s, detection_count |-> n] :
     s \in ApiMsgIds, n \in {1}}

\* EvaluationResult messages
EvaluationResults ==
  {[type |-> "EvaluationResult", session_id |-> s, resellable_items |-> objs] :
     s \in ApiMsgIds, objs \in {<<"Lamp">>}}

\* the session data that process_image stores; the keys that the handlers add
\* later are absent (NoneMsg, and completed read with .get(.., False));
\* progress in percent
NewApiSession ==
  [start_time |-> now,
   status |-> "processing",
   progress |-> 0,
   detection_result |-> NoneMsg,
   evaluation_result |-> NoneMsg,
   processing_result |-> NoneMsg,
   completed |-> FALSE]

\* process_image: a valid upload stores a session under the generated id and
\* sends the image to the detection agent; another file is refused
process_image(session_id, valid) ==
  IF valid
    THEN /\ api_sessions' = Put(api_sessions, session_id, NewApiSession)
         /\ files' = files \cup {ApiUploadPath(session_id)}
         /\ network' = network \cup
              {Envelope(DETECTION_ADDRESS, API_WRAPPER,
                        CapturedImageMsg(session_id,
                                         ApiUploadPath(session_id)))}
    ELSE UNCHANGED <<api_sessions, network, files>>

\* a handler that stores the result under an id it has not seen
handle_detection_result_creating(msg) ==
  api_sessions' = Put(api_sessions, msg.session_id,
    [(IF msg.session_id \in DOMAIN api_sessions
        THEN api_sessions[msg.session_id] ELSE NewApiSession)
       EXCEPT !.status = "detection_complete", !.progress = 25,
              !.detection_result = msg])

\* handle_detection_result
handle_detection_result(msg) ==
  IF msg.session_id \in DOMAIN api_sessions
    THEN api_sessions' = Put(api_sessions, msg.session_id,
           [api_sessions[msg.session_id]
              EXCEPT !.status = "detection_complete", !.progress = 25,
                     !.detection_result = msg])
    ELSE UNCHANGED api_sessions

\* handle_evaluation_result
handle_evaluation_result(msg) ==
  IF msg.session_id \in DOMAIN api_sessions
    THEN api_sessions' = Put(api_sessions, msg.session_id,
           [api_sessions[msg.session_id]
              EXCEPT !.status = "evaluation_complete", !.progress = 50,
                     !.evaluation_result = msg])
    ELSE UNCHANGED api_sessions

\* handle_processing_result
handle_processing_result(msg) ==
  IF msg.session_id \in DOMAIN api_sessions
    THEN api_sessions' = Put(api_sessions, msg.session_id,
           [api_sessions[msg.session_id]
              EXCEPT !.status = "processing_complete", !.progress = 100,
                     !.processing_result =
                        [type |-> "processing_result",
                         cropped_files |-> msg.cropped_files,
                         total_objects |-> msg.total_objects_processed,
                         processing_time |->
                           now - api_sessions[msg.session_id].start_time],
                     !.completed = TRUE])
    ELSE UNCHANGED api_sessions

\* what a step of the API wrapper leaves alone
ApiFrame(event) ==
  /\ last_event' = event
  /\ last_result' = NoneMsg
  /\ UNCHANGED <<coordVars, now, next_sweep, reportVars, visionVars, fbVars>>

\* POST /api/process-image; the generated id carries a random part and is new
UploadImage ==
  \E session_id \in ApiIds, valid \in BOOLEAN :
    /\ session_id \notin DOMAIN api_sessions
    /\ process_image(session_id, valid)
    /\ ApiFrame([type |-> "process_image", to |-> API_WRAPPER,
                 session_id |-> session_id, valid |-> valid])

\* a DetectionResult reaches the API wrapper
DetectionResult ==
  \E msg \in DetectionResults :
    /\ handle_detection_result(msg)
    /\ ApiFrame([type |-> "DetectionResult", to |-> API_WRAPPER,
                 session_id |-> msg.session_id, msg |-> msg])
    /\ UNCHANGED <<network, files>>

\* an EvaluationResult reaches the API wrapper
EvaluationResult ==
  \E msg \in EvaluationResults :
    /\ handle_evaluation_result(msg)
    /\ ApiFrame([type |-> "EvaluationResult", to |-> API_WRAPPER,
                 session_id |-> msg.session_id, msg |-> msg])
    /\ UNCHANGED <<network, files>>

\* a ProcessingResult reaches the API wrapper
ApiProcessingResult ==
  \E msg \in ProcessingResults(ApiMsgIds) :
    /\ handle_processing_result(msg)
    /\ ApiFrame([type |-> "ProcessingResult", to |-> API_WRAPPER,
                 session_id |-> msg.session_id, msg |-> msg])
    /\ UNCHANGED <<network, files>>

(* ------------------------------------------------------------------ *)
(* Detection, evaluation and cropping: the functions                    *)
(* ------------------------------------------------------------------ *)
\* A dict is the sequence of its items [k, v] in insertion order, keys unique.
DictKeys(d) == {d[i].k : i \in DOMAIN d}

\* d[k]
DictGet(d, k) == d[CHOOSE i \in DOMAIN d : d[i].k = k].v

\* d[k] = v: a new key goes last, a known key keeps its place
DictSet(d, k, v) ==
  IF k \in DictKeys(d)
    THEN [i \in DOMAIN d |-> IF d[i].k = k THEN [k |-> k, v |-> v] ELSE d[i]]
    ELSE Append(d, [k |-> k, v |-> v])

\* A str of coordinates is the sequence of its tokens.
Tok(t, n) == [t |-> t, n |-> n]

\* str(coords) of a tuple of four ints: "(x1, y1, x2, y2)"
str_of_coords(coords) ==
  <<Tok("(", 0), Tok("int", coords[1]), Tok(", ", 0), Tok("int", coords[2]),
    Tok(", ", 0), Tok("int", coords[3]), Tok(", ", 0), Tok("int", coords[4]),
    Tok(")", 0)>>

\* str.strip("()"): leading and trailing parentheses removed
RECURSIVE strip_parens(_)
strip_parens(s) ==
  IF s = << >> THEN s
  ELSE IF Head(s).t \in {"(", ")"} THEN strip_parens(Tail(s))
  ELSE IF s[Len(s)].t \in {"(", ")"}
    THEN strip_parens(SubSeq(s, 1, Len(s) - 1))
  ELSE s

\* str.split(", "): the pieces between the separators
RECURSIVE split_commas(_, _)
split_commas(s, piece) ==
  IF s = << >> THEN <<piece>>
  ELSE IF Head(s).t = ", "
    THEN <<piece>> \o split_commas(Tail(s), << >>)
    ELSE split_commas(Tail(s), Append(piece, Head(s)))

\* tuple(map(int, coords_str.strip("()").split(", "))): ok is False when int()
\* raises on a piece
parse_ints(coords_str) ==
  LET pieces == split_commas(strip_parens(coords_str), << >>)
      ok == \A i \in DOMAIN pieces :
              Len(pieces[i]) = 1 /\ pieces[i][1].t = "int"
  IN [ok |-> ok,
      coords |-> IF ok THEN [i \in DOMAIN pieces |-> pieces[i][1].n]
                       ELSE << >>]

\* calculate_bbox_area of the detection agent: 0 when parsing or unpacking
\* raises
calculate_bbox_area(coords_str) ==
  LET p == parse_ints(coords_str)
  IN IF p.ok /\ Len(p.coords) = 4
       THEN (p.coords[3] - p.coords[1]) * (p.coords[4] - p.coords[2])
       ELSE 0

\* the loop of select_largest_instances over the items from position i on
RECURSIVE class_largest_from(_, _, _)
class_largest_from(all_detections, i, class_largest) ==
  IF i > Len(all_detections) THEN class_largest
  ELSE LET coords_key == all_detections[i].k
           class_name == all_detections[i].v
           area == calculate_bbox_area(coords_key)
           entry == [coords_key |-> coords_key, area |-> area]
       IN class_largest_from(all_detections, i + 1,
            IF class_name \notin DictKeys(class_largest)
              THEN DictSet(class_largest, class_name, entry)
              ELSE IF area > DictGet(class_largest, class_name).area
                THEN DictSet(class_largest, class_name, entry)
                ELSE class_largest)

\* the loop that converts class_largest back to coords_key -> class_name
RECURSIVE convert_back_from(_, _, _)
convert_back_from(class_largest, i, filtered_detections) ==
  IF i > Len(class_largest) THEN filtered_detections
  ELSE convert_back_from(class_largest, i + 1,
         DictSet(filtered_detections, class_largest[i].v.coords_key,
                 class_largest[i].k))

\* a filter that keeps the last instance met of each class
select_last_instances(all_detections) ==
  LET last(c) == CHOOSE i \in DOMAIN all_detections :
                   /\ all_detections[i].v = c
                   /\ \A j \in DOMAIN all_detections :
                        all_detections[j].v = c => j <= i
      kept == {last(all_detections[i].v) : i \in DOMAIN all_detections}
      RECURSIVE pick(_)
      pick(i) == IF i > Len(all_detections) THEN << >>
                 ELSE (IF i \in kept THEN <<all_detections[i]>> ELSE << >>)
                        \o pick(i + 1)
  IN pick(1)

\* select_largest_instances
select_largest_instances(all_detections) ==
  convert_back_from(class_largest_from(all_detections, 1, << >>), 1, << >>)

\* the dict that process_captured_image fills from the boxes of the predictor,
\* boxes being the sequence of [coords, class_name] it reports
RECURSIVE all_detections_from(_, _, _)
all_detections_from(boxes, i, all_detections) ==
  IF i > Len(boxes) THEN all_detections
  ELSE all_detections_from(boxes, i + 1,
         DictSet(all_detections, str_of_coords(boxes[i].coords),
                 boxes[i].class_name))

\* list(set(d.values())), by first occurrence
RECURSIVE unique_values_from(_, _)
unique_values_from(d, i) ==
  IF i > Len(d) THEN << >>
  ELSE (IF \E j \in 1..(i - 1) : d[j].v = d[i].v THEN << >> ELSE <<d[i].v>>)
         \o unique_values_from(d, i + 1)

\* A classifier reply is [kind, items]: kind "list" when eval() gives a list,
\* "not_list" when it gives another value, "unparseable" when it raises; an
\* item is [is_str, text].
StrItem(text) == [is_str |-> TRUE, text |-> text]
OtherItem == [is_str |-> FALSE, text |-> "1"]

\* the parse of the reply: eval(), the isinstance check and the except branch
resellable_names_of(reply) ==
  IF reply.kind = "list" THEN reply.items ELSE << >>

\* [name.lower() for name in resellable_names] raises on an item without
\* lower()
normalize_raises(resellable_names) ==
  \E i \in DOMAIN resellable_names : ~resellable_names[i].is_str

\* the names as the classifier wrote them
resellable_names_as_written(resellable_names) ==
  {resellable_names[i].text : i \in DOMAIN resellable_names}

\* resellable_names_normalized
resellable_names_normalized(resellable_names) ==
  {Lower(resellable_names[i].text) : i \in DOMAIN resellable_names}

\* the loop that filters largest_instances by the normalized names
RECURSIVE filter_resellable_from(_, _, _)
filter_resellable_from(largest_instances, normalized, i) ==
  IF i > Len(largest_instances) THEN << >>
  ELSE (IF Lower(largest_instances[i].v) \in normalized
          THEN <<largest_instances[i]>> ELSE << >>)
         \o filter_resellable_from(largest_instances, normalized, i + 1)

\* parse_coordinates of the image processor: (0, 0, 0, 0) when int() raises
parse_coordinates(coords_str) ==
  LET p == parse_ints(coords_str)
  IN IF p.ok THEN p.coords ELSE <<0, 0, 0, 0>>

\* f"{capture_ts}_{crop_index}_{safe_class_name}.jpg"
CropFilename(capture_ts, crop_index, class_name) ==
  [capture_ts |-> capture_ts, crop_index |-> crop_index,
   class_name |-> class_name]

\* the loop of process_evaluated_objects from position i on; crop_fails is the
\* set of positions at which crop_and_save_image returns None for a reason of
\* its own, and it returns None as well when unpacking coords into four
\* values raises; out collects crop_index, the crop records and the
\* processing details
RECURSIVE crop_loop_from(_, _, _, _, _)
crop_loop_from(filtered_detections, capture_ts, crop_fails, i, out) ==
  IF i > Len(filtered_detections) THEN out
  ELSE LET coords == parse_coordinates(filtered_detections[i].k)
           class_name == filtered_detections[i].v
           crop_index == out.crop_index + 1
           file == CropFilename(capture_ts, crop_index, class_name)
       IN crop_loop_from(filtered_detections, capture_ts, crop_fails, i + 1,
            IF coords = <<0, 0, 0, 0>> THEN out
            ELSE IF i \in crop_fails \/ Len(coords) # 4
              THEN [out EXCEPT !.crop_index = crop_index]
              ELSE [crop_index |-> crop_index,
                    cropped_files |-> Append(out.cropped_files, file),
                    resellable_objects_processed |->
                      Append(out.resellable_objects_processed, class_name),
                    processing_details |->
                      DictSet(out.processing_details, class_name,
                              [coordinates |-> coords, cropped_file |-> file])])

\* a loop that crops the first resellable object only
crop_loop_first_only(filtered_detections, capture_ts, crop_fails) ==
  crop_loop_from(SubSeq(filtered_detections, 1, 1), capture_ts, crop_fails, 1,
    [crop_index |-> 0, cropped_files |-> << >>,
     resellable_objects_processed |-> << >>, processing_details |-> << >>])

\* a loop that gives up at the first crop that fails
crop_loop_aborting(filtered_detections, capture_ts, crop_fails) ==
  LET before == {i \in DOMAIN filtered_detections :
                   \A j \in crop_fails : i < j}
  IN crop_loop_from(SubSeq(filtered_detections, 1, Cardinality(before)),
       capture_ts, {}, 1,
       [crop_index |-> 0, cropped_files |-> << >>,
        resellable_objects_processed |-> << >>, processing_details |-> << >>])

\* the loop of process_evaluated_objects
crop_loop(filtered_detections, capture_ts, crop_fails) ==
  crop_loop_from(filtered_detections, capture_ts, crop_fails, 1,
    [crop_index |-> 0, cropped_files |-> << >>,
     resellable_objects_processed |-> << >>, processing_details |-> << >>])

\* CROP_BORDER_PERCENTAGE = 0.3, as a fraction
CROP_BORDER_PERCENTAGE == [num |-> 3, den |-> 10]

\* int(length * CROP_BORDER_PERCENTAGE): int() truncates towards zero
border_of(length) ==
  IF length >= 0
    THEN (length * CROP_BORDER_PERCENTAGE.num) \div CROP_BORDER_PERCENTAGE.den
    ELSE 0 - (((0 - length) * CROP_BORDER_PERCENTAGE.num)
                \div CROP_BORDER_PERCENTAGE.den)

\* max(a, b) and min(a, b)
max(a, b) == IF a >= b THEN a ELSE b
min(a, b) == IF a <= b THEN a ELSE b

\* a crop box that is dilated and not clamped to the image
expanded_coords_unclamped(coords, img_size) ==
  <<coords[1] - border_of(coords[3] - coords[1]),
    coords[2] - border_of(coords[4] - coords[2]),
    coords[3] + border_of(coords[3] - coords[1]),
    coords[4] + border_of(coords[4] - coords[2])>>

\* expanded_coords of crop_and_save_image, img_size being (width, height)
expanded_coords(coords, img_size) ==
  LET x_min == coords[1]
      y_min == coords[2]
      x_max == coords[3]
      y_max == coords[4]
      border_x == border_of(x_max - x_min)
      border_y == border_of(y_max - y_min)
  IN <<max(0, x_min - border_x), max(0, y_min - border_y),
       min(img_size[1], x_max + border_x), min(img_size[2], y_max + border_y)>>

(* ------------------------------------------------------------------ *)
(* Detection, evaluation and cropping: the agents                       *)
(* ------------------------------------------------------------------ *)
\* the boxes and the class names the predictor reports
Boxes == {<<0, 0, 100, 100>>, <<0, 0, 50, 50>>, <<10, 10, 30, 30>>,
          <<50, 50, 100, 100>>}
ClassNames == {"laptop", "bottle"}

\* the sequences of at most n elements of S
SeqsUpTo(S, n) == UNION {[1..k -> S] : k \in 0..n}

\* what yolo_model.predict does: it raises, or it reports boxes
Raises == [raises |-> TRUE, boxes |-> << >>]
Reports(boxes) == [raises |-> FALSE, boxes |-> boxes]

\* every prediction of at most MaxBoxes boxes
AllPredictions ==
  {Raises} \cup
  {Reports(boxes) :
     boxes \in SeqsUpTo([coords : Boxes, class_name : ClassNames], MaxBoxes)}

\* a few predictions: a raising call, no box, one bottle, and two laptops
\* with a bottle
SomePredictions ==
  {Raises, Reports(<< >>),
   Reports(<<[coords |-> <<10, 10, 30, 30>>, class_name |-> "bottle"]>>),
   Reports(<<[coords |-> <<0, 0, 50, 50>>, class_name |-> "laptop"],
             [coords |-> <<0, 0, 100, 100>>, class_name |-> "laptop"],
             [coords |-> <<10, 10, 30, 30>>, class_name |-> "bottle"]>>)}

\* the items a classifier reply may list
ReplyItems == {StrItem("Laptop"), StrItem("BOTTLE"), StrItem("book"), OtherItem}

\* what the vision API does: the call raises, or it replies; every reply of
\* at most MaxNames items
AllReplies ==
  {[kind |-> "api_error", items |-> << >>],
   [kind |-> "unparseable", items |-> << >>],
   [kind |-> "not_list", items |-> << >>]} \cup
  {[kind |-> "list", items |-> items] : items \in SeqsUpTo(ReplyItems, MaxNames)}

\* two replies: no item, and the laptop
SomeReplies ==
  {[kind |-> "list", items |-> << >>],
   [kind |-> "list", items |-> <<StrItem("Laptop")>>]}

\* a DetectionResult that counts every detection
DetectionResultMsg_counting_all(msg, all_detections, filtered_detections) ==
  [type |-> "DetectionResult",
   image_path |-> msg.file_path,
   timestamp |-> msg.timestamp,
   session_id |-> msg.session_id,
   detected_objects |-> all_detections,
   unique_classes |-> unique_values_from(filtered_detections, 1),
   detection_count |-> Len(all_detections),
   largest_instances |-> filtered_detections]

\* DetectionResult of the detection agent
DetectionResultMsg(msg, all_detections, filtered_detections) ==
  [type |-> "DetectionResult",
   image_path |-> msg.file_path,
   timestamp |-> msg.timestamp,
   session_id |-> msg.session_id,
   detected_objects |-> all_detections,
   unique_classes |-> unique_values_from(filtered_detections, 1),
   detection_count |-> Len(filtered_detections),
   largest_instances |-> filtered_detections]

\* a handler without the "already processed" test
process_captured_image_again(state, msg, prediction) ==
  IF ~yolo_model \/ msg.file_path \notin files
    THEN [state |-> state, sends |-> {}]
  ELSE
    LET marked == [state EXCEPT
                     !.processed_files = @ \cup {msg.file_path},
                     !.current_session = msg.session_id]
        all_detections == all_detections_from(prediction.boxes, 1, << >>)
        filtered_detections == select_largest_instances(all_detections)
    IN IF prediction.raises \/ all_detections = << >>
         THEN [state |-> marked, sends |-> {}]
         ELSE [state |-> [marked EXCEPT !.images_processed = @ + 1],
               sends |-> {Envelope(AI_EVALUATOR_ADDRESS, DETECTION_ADDRESS,
                            DetectionResultMsg(msg, all_detections,
                                               filtered_detections))}]

\* a handler that reports a failed prediction as an empty DetectionResult
process_captured_image_reporting(state, msg, prediction) ==
  IF ~yolo_model \/ msg.file_path \notin files
       \/ msg.file_path \in state.processed_files
    THEN [state |-> state, sends |-> {}]
    ELSE [state |-> [state EXCEPT
                       !.processed_files = @ \cup {msg.file_path},
                       !.current_session = msg.session_id],
          sends |-> {Envelope(AI_EVALUATOR_ADDRESS, DETECTION_ADDRESS,
                       DetectionResultMsg(msg, << >>, << >>))}]

\* process_captured_image: the detection_state it leaves and the envelopes it
\* sends, from the detection_state it finds
process_captured_image(state, msg, prediction) ==
  IF ~yolo_model THEN [state |-> state, sends |-> {}]
  ELSE IF msg.file_path \notin files THEN [state |-> state, sends |-> {}]
  ELSE IF msg.file_path \in state.processed_files
    THEN [state |-> state, sends |-> {}]
  ELSE
    LET marked == [state EXCEPT
                     !.processed_files = @ \cup {msg.file_path},
                     !.current_session = msg.session_id]
        all_detections == all_detections_from(prediction.boxes, 1, << >>)
        filtered_detections == select_largest_instances(all_detections)
    IN IF prediction.raises THEN [state |-> marked, sends |-> {}]
       ELSE IF all_detections = << >> THEN [state |-> marked, sends |-> {}]
       ELSE [state |-> [marked EXCEPT !.images_processed = @ + 1],
             sends |-> {Envelope(AI_EVALUATOR_ADDRESS, DETECTION_ADDRESS,
                          DetectionResultMsg(msg, all_detections,
                                             filtered_detections))}]

\* EvaluationResult of the AI evaluator.  detected_objects is a history
\* field: the detected_objects of the DetectionResult it answers, which the
\* code does not forward
EvaluationResultMsg(msg, reply, resellable_names, filtered_detections) ==
  [type |-> "EvaluationResult",
   image_path |-> msg.image_path,
   timestamp |-> msg.timestamp,
   session_id |-> msg.session_id,
   original_objects |-> msg.unique_classes,
   resellable_items |-> resellable_names,
   gemini_raw_response |-> reply,
   detected_objects |-> msg.detected_objects,
   filtered_detections |-> filtered_detections]

\* the reply "[]"
EmptyReply == [kind |-> "list", items |-> << >>]

\* process_image_and_objects_for_resale on what the vision API does: the text
\* of the reply, or "[]" when the call raises
process_image_and_objects_for_resale(reply) ==
  IF reply.kind = "api_error" THEN EmptyReply ELSE reply

\* evaluate_resellability: the evaluator_state it leaves and the envelopes it
\* sends; reply is what the vision API does when called
evaluate_resellability(state, msg, reply) ==
  IF ~gemini_model THEN [state |-> state, sends |-> {}]
  ELSE IF msg.image_path \notin files THEN [state |-> state, sends |-> {}]
  ELSE
    LET called == [state EXCEPT !.current_session = msg.session_id,
                                !.api_calls_made = @ + 1]
        gemini_raw_result == process_image_and_objects_for_resale(reply)
        resellable_names == resellable_names_of(gemini_raw_result)
        filtered_detections ==
          filter_resellable_from(msg.largest_instances,
            resellable_names_normalized(resellable_names), 1)
    IN IF normalize_raises(resellable_names)
         THEN [state |-> called, sends |-> {}]
         ELSE [state |-> [called EXCEPT !.images_evaluated = @ + 1],
               sends |-> {Envelope(IMAGE_PROCESSOR_ADDRESS,
                            AI_EVALUATOR_ADDRESS,
                            EvaluationResultMsg(msg, gemini_raw_result,
                              resellable_names, filtered_detections))}]

\* ProcessingResult of the image processor
ProcessingResultMsg(msg, out) ==
  [type |-> "ProcessingResult",
   original_image_path |-> msg.image_path,
   timestamp |-> msg.timestamp,
   session_id |-> msg.session_id,
   resellable_objects |-> out.resellable_objects_processed,
   cropped_files |-> out.cropped_files,
   processing_summary |-> out.processing_details,
   total_objects_processed |-> Len(out.resellable_objects_processed)]

\* process_evaluated_objects: the processor_state it leaves, the crops it
\* saves and the envelopes it sends
process_evaluated_objects(state, msg, crop_fails) ==
  IF msg.image_path \notin files
    THEN [state |-> state, saved |-> {}, sends |-> {}]
  ELSE
    LET tracked == IF state.current_session # msg.session_id
                     THEN [state EXCEPT !.current_session = msg.session_id,
                                        !.session_crop_count = 0]
                     ELSE state
        out == crop_loop(msg.filtered_detections, msg.timestamp, crop_fails)
    IN IF msg.filtered_detections = << >>
         THEN [state |-> tracked, saved |-> {}, sends |-> {}]
         ELSE [state |-> [tracked EXCEPT
                            !.session_crop_count = @ + out.crop_index,
                            !.images_processed = @ + 1,
                            !.total_crops_created = @ + Len(out.cropped_files)],
               saved |-> Range(out.cropped_files),
               sends |-> {Envelope(REPORT_COORDINATOR, IMAGE_PROCESSOR_ADDRESS,
                            ProcessingResultMsg(msg, out))}]

\* what a step of the three agents leaves alone
AgentFrame ==
  /\ last_result' = NoneMsg
  /\ UNCHANGED <<coordVars, now, next_sweep, reportVars, apiVars, fbVars, webVars,
                 files>>

\* setup_yolo_model: the startup event of the detection agent; the model
\* loads or YOLO() raises
setup_yolo_model ==
  \E loaded \in BOOLEAN :
    /\ DETECTION_ADDRESS \notin started
    /\ started' = started \cup {DETECTION_ADDRESS}
    /\ yolo_model' = loaded
    /\ last_event' = [type |-> "startup", agent |-> DETECTION_ADDRESS,
                      loaded |-> loaded]
    /\ AgentFrame
    /\ UNCHANGED <<network, detection_state, gemini_model, evaluator_state,
                   processor_state, cropped_folder>>

\* setup_ai_evaluator: the startup event of the AI evaluator
setup_ai_evaluator ==
  \E loaded \in BOOLEAN :
    /\ AI_EVALUATOR_ADDRESS \notin started
    /\ started' = started \cup {AI_EVALUATOR_ADDRESS}
    /\ gemini_model' = loaded
    /\ last_event' = [type |-> "startup", agent |-> AI_EVALUATOR_ADDRESS,
                      loaded |-> loaded]
    /\ AgentFrame
    /\ UNCHANGED <<network, yolo_model, detection_state, evaluator_state,
                   processor_state, cropped_folder>>

\* the detection agent handles a CapturedImage
DetectionAgent(predictions) ==
  \E e \in network, prediction \in predictions :
    /\ e.to = DETECTION_ADDRESS
    /\ e.msg.type = "CapturedImage"
    /\ DETECTION_ADDRESS \in started
    /\ LET r == process_captured_image(detection_state, e.msg, prediction)
       IN /\ detection_state' = r.state
          /\ network' = (network \ {e}) \cup r.sends
          /\ last_event' = [type |-> "CapturedImage",
                            agent |-> DETECTION_ADDRESS, msg |-> e.msg,
                            prediction |-> prediction,
                            found |-> e.msg.file_path \in files,
                            fresh |-> e.msg.file_path
                                        \notin detection_state.processed_files,
                            sends |-> r.sends]
    /\ AgentFrame
    /\ UNCHANGED <<started, yolo_model, gemini_model, evaluator_state,
                   processor_state, cropped_folder>>

\* the AI evaluator handles a DetectionResult
EvaluatorAgent(replies) ==
  \E e \in network, reply \in replies :
    /\ e.to = AI_EVALUATOR_ADDRESS
    /\ e.msg.type = "DetectionResult"
    /\ AI_EVALUATOR_ADDRESS \in started
    /\ LET r == evaluate_resellability(evaluator_state, e.msg, reply)
       IN /\ evaluator_state' = r.state
          /\ network' = (network \ {e}) \cup r.sends
          /\ last_event' = [type |-> "DetectionResult",
                            agent |-> AI_EVALUATOR_ADDRESS, msg |-> e.msg,
                            reply |-> reply,
                            found |-> e.msg.image_path \in files,
                            sends |-> r.sends]
    /\ AgentFrame
    /\ UNCHANGED <<started, yolo_model, detection_state, gemini_model,
                   processor_state, cropped_folder>>

\* the image processor handles an EvaluationResult
ProcessorAgent ==
  \E e \in network :
    /\ e.to = IMAGE_PROCESSOR_ADDRESS
    /\ e.msg.type = "EvaluationResult"
    /\ \E crop_fails \in SUBSET DOMAIN e.msg.filtered_detections :
         LET r == process_evaluated_objects(processor_state, e.msg, crop_fails)
         IN /\ processor_state' = r.state
            /\ cropped_folder' = cropped_folder \cup r.saved
            /\ network' = (network \ {e}) \cup r.sends
            /\ last_event' = [type |-> "EvaluationResult",
                              agent |-> IMAGE_PROCESSOR_ADDRESS, msg |-> e.msg,
                              crop_fails |-> crop_fails,
                              found |-> e.msg.image_path \in files,
                              sends |-> r.sends]
    /\ AgentFrame
    /\ UNCHANGED <<started, yolo_model, detection_state, gemini_model,
                   evaluator_state>>

\* the three agents on every prediction and every reply
FilterDetection == DetectionAgent(AllPredictions)
FilterEvaluation == EvaluatorAgent(AllReplies)

FilterNext ==
  \/ setup_yolo_model
  \/ setup_ai_evaluator
  \/ UploadImage
  \/ FilterDetection
  \/ FilterEvaluation
  \/ ProcessorAgent

\* an image sent by the API wrapper through detection, evaluation and
\* cropping, for every prediction and every classifier reply within the bounds
FilterSpec == Init /\ [][FilterNext]_vars

\* the sizes of the images and the boxes that lie within an image
ImageSizes == (0..MaxSide) \X (0..MaxSide)
BoxesWithin(img_size) ==
  {c \in (0..img_size[1]) \X (0..img_size[2])
          \X (0..img_size[1]) \X (0..img_size[2]) :
     c[1] <= c[3] /\ c[2] <= c[4]}

\* crop_and_save_image on an image of some size and a box within it: the
\* crop of the expanded box is saved in CROPPED_FOLDER
CropAndSave ==
  \E img_size \in ImageSizes :
    \E coords \in BoxesWithin(img_size) :
      /\ cropped_folder' = cropped_folder
                             \cup {CropFilename(now, 1, "laptop")}
      /\ last_event' = [type |-> "crop_and_save_image",
                        agent |-> IMAGE_PROCESSOR_ADDRESS,
                        coords |-> coords, img_size |-> img_size,
                        expanded_coords |-> expanded_coords(coords, img_size)]
      /\ AgentFrame
      /\ UNCHANGED <<started, yolo_model, detection_state, gemini_model,
                     evaluator_state, processor_state, network>>

CropNext == cropped_folder = {} /\ CropAndSave

\* the first call of crop_and_save_image, on every box of every image size
CropSpec == Init /\ [][CropNext]_vars

\* coordinate keys: two that str(coords) gives, one with a piece that is
\* not an integer, one of three and one of five integers, and the empty
\* string
CoordKeys ==
  {str_of_coords(<<0, 0, 100, 100>>),
   str_of_coords(<<10, 10, 30, 30>>),
   <<Tok("(", 0), Tok("word", 0), Tok(", ", 0), Tok("int", 0), Tok(", ", 0),
     Tok("int", 50), Tok(", ", 0), Tok("int", 50), Tok(")", 0)>>,
   <<Tok("(", 0), Tok("int", 0), Tok(", ", 0), Tok("int", 0), Tok(", ", 0),
     Tok("int", 50), Tok(")", 0)>>,
   <<Tok("(", 0), Tok("int", 0), Tok(", ", 0), Tok("int", 0), Tok(", ", 0),
     Tok("int", 50), Tok(", ", 0), Tok("int", 50), Tok(", ", 0),
     Tok("int", 60), Tok(")", 0)>>,
   << >>}

\* the detection maps of at most MaxBoxes items over these keys: the keys
\* are distinct
KeyedDetections ==
  {d \in SeqsUpTo([k : CoordKeys, v : ClassNames \cup {"book"}], MaxBoxes) :
     \A i, j \in DOMAIN d : d[i].k = d[j].k => i = j}

\* select_largest_instances of the detection agent and the loop of
\* process_evaluated_objects, applied to a detection map
ApplyToKeys ==
  \E d \in KeyedDetections :
    /\ last_event' = [type |-> "coords_keys", detections |-> d,
                      areas |-> [i \in DOMAIN d |-> calculate_bbox_area(d[i].k)],
                      largest_instances |-> select_largest_instances(d),
                      out |-> crop_loop(d, now, {})]
    /\ last_result' = NoneMsg
    /\ UNCHANGED <<coordVars, now, next_sweep, network, reportVars, apiVars, fbVars,
                   visionVars, files>>

KeyNext == last_event.type = "startup" /\ ApplyToKeys

\* the two parsers of coordinate keys on well-formed and malformed keys
KeySpec == Init /\ [][KeyNext]_vars

(* ------------------------------------------------------------------ *)
(* The Facebook login agent                                             *)
(* ------------------------------------------------------------------ *)
\* the agents that send FacebookLoginRequest
LoginClients == {PRICE_SCRAPER_ADDRESS, MARKETPLACE_LISTING_ADDRESS}
\* the session ids their requests carry
LoginSessionIds == {"s1"}

\* FacebookLoginResult
FacebookLoginResult(success, message, msg) ==
  [type |-> "FacebookLoginResult", success |-> success, logged_in |-> success,
   message |-> message, agent_id |-> msg.agent_id,
   session_id |-> msg.session_id]

\* f"{msg.agent_id}_{msg.session_id}"
request_key(msg) == msg.agent_id \o "_" \o msg.session_id

\* pending_requests[request_key] = msg: a new key goes to the end of the dict
StoreRequest(pending, key) ==
  IF \E i \in DOMAIN pending : pending[i] = key
    THEN pending ELSE Append(pending, key)

\* pending_requests.pop(request_key, None)
PopRequest(pending, key) == SelectSeq(pending, LAMBDA k : k # key)

\* the message of a login attempt's result
LoginMessage(price_scraper_success, marketplace_listing_success) ==
  IF price_scraper_success /\ marketplace_listing_success
    THEN "Facebook login successful on: Price Scraper, Marketplace Listing"
  ELSE IF price_scraper_success
    THEN "Facebook login successful on: Price Scraper"
  ELSE IF marketplace_listing_success
    THEN "Facebook login successful on: Marketplace Listing"
  ELSE "Facebook login failed on all APIs"

\* the state in which the handler branches: the flags refreshed from the two
\* /health answers when the last check is more than a minute old
RefreshedStatus(health) ==
  IF now - facebook_state.last_status_check > STATUS_MAX_AGE
    THEN [facebook_state EXCEPT
            !.price_scraper_logged_in = health.price_scraper,
            !.marketplace_listing_logged_in = health.marketplace_listing,
            !.last_status_check = now]
    ELSE facebook_state

\* a handler that attempts the login whenever no API is logged in
handle_facebook_login_request_unlimited(sender, msg, health, login) ==
  LET state == RefreshedStatus(health)
      login_ps == login.price_scraper
      login_ml == login.marketplace_listing
      logged_in == state.price_scraper_logged_in
                     \/ state.marketplace_listing_logged_in
      result ==
        IF logged_in
          THEN FacebookLoginResult(TRUE, "Facebook already logged in", msg)
          ELSE FacebookLoginResult(login_ps \/ login_ml,
                                   LoginMessage(login_ps, login_ml), msg)
  IN /\ facebook_state' =
          IF logged_in
            THEN state
            ELSE [state EXCEPT !.price_scraper_logged_in = login_ps,
                               !.marketplace_listing_logged_in = login_ml,
                               !.last_login_attempt = now,
                               !.login_attempts = @ + 1]
     /\ login_calls' = IF logged_in THEN login_calls
                                    ELSE Append(login_calls, now)
     /\ network' = network \cup {Envelope(sender, FACEBOOK_LOGIN, result)}
     /\ last_event' = [type |-> "FacebookLoginRequest", sender |-> sender,
                       agent_id |-> msg.agent_id,
                       session_id |-> msg.session_id,
                       logged_in |-> logged_in, sent |-> <<result>>]

\* handle_facebook_login_request; health holds the answers of
\* check_facebook_status for the two APIs, login those of
\* attempt_facebook_login. Every path stores the request key first and pops
\* it after its send.
handle_facebook_login_request(sender, msg, health, login) ==
  LET key == request_key(msg)
      stored == StoreRequest(facebook_state.pending_requests, key)
      state == [RefreshedStatus(health) EXCEPT
                  !.pending_requests = PopRequest(stored, key)]
      login_ps == login.price_scraper
      login_ml == login.marketplace_listing
      logged_in == state.price_scraper_logged_in
                     \/ state.marketplace_listing_logged_in
      rate_limited == now - state.last_login_attempt < LOGIN_WINDOW
      time_remaining == LOGIN_WINDOW - (now - state.last_login_attempt)
      result ==
        IF logged_in
          THEN FacebookLoginResult(TRUE, "Facebook already logged in", msg)
        ELSE IF rate_limited
          THEN FacebookLoginResult(FALSE,
                 "Rate limited - wait " \o ToString(time_remaining)
                   \o " seconds before next attempt", msg)
        ELSE FacebookLoginResult(login_ps \/ login_ml,
                                 LoginMessage(login_ps, login_ml), msg)
      attempts == ~logged_in /\ ~rate_limited
  IN /\ facebook_state' =
          IF attempts
            THEN [state EXCEPT !.price_scraper_logged_in = login_ps,
                               !.marketplace_listing_logged_in = login_ml,
                               !.last_login_attempt = now,
                               !.login_attempts = @ + 1]
            ELSE state
     /\ login_calls' = IF attempts THEN Append(login_calls, now)
                                   ELSE login_calls
     /\ network' = network \cup {Envelope(sender, FACEBOOK_LOGIN, result)}
     /\ last_event' = [type |-> "FacebookLoginRequest", sender |-> sender,
                       agent_id |-> msg.agent_id,
                       session_id |-> msg.session_id,
                       logged_in |-> logged_in, sent |-> <<result>>]

\* the answers of the two APIs to a status check or to a login attempt
ApiAnswers == [price_scraper : BOOLEAN, marketplace_listing : BOOLEAN]

\* what a step of the Facebook login agent leaves alone
LoginFrame ==
  /\ last_result' = NoneMsg
  /\ UNCHANGED <<coordVars, now, next_sweep, reportVars, apiVars, webVars,
                 yolo_model, detection_state, gemini_model, evaluator_state,
                 processor_state, cropped_folder, files>>

\* setup_facebook_login, the startup event
setup_facebook_login ==
  /\ FACEBOOK_LOGIN \notin started
  /\ started' = started \cup {FACEBOOK_LOGIN}
  /\ \E health \in ApiAnswers :
       facebook_state' =
         [facebook_state EXCEPT
            !.price_scraper_logged_in = health.price_scraper,
            !.marketplace_listing_logged_in = health.marketplace_listing,
            !.last_status_check = now]
  /\ last_event' = [type |-> "startup", agent |-> FACEBOOK_LOGIN]
  /\ UNCHANGED <<login_calls, next_status_check, network>>
  /\ LoginFrame

\* a client's FacebookLoginRequest is handled
FacebookLoginRequest ==
  /\ FACEBOOK_LOGIN \in started
  /\ \E sender \in LoginClients, session_id \in LoginSessionIds,
        health \in ApiAnswers, login \in ApiAnswers :
       handle_facebook_login_request(
         sender, [agent_id |-> sender, session_id |-> session_id],
         health, login)
  /\ UNCHANGED <<started, next_status_check>>
  /\ LoginFrame

\* status_check_interval: the flags are refreshed and, when more than ten
\* requests are pending, the five oldest are dropped
status_check_interval ==
  /\ FACEBOOK_LOGIN \in started
  /\ now >= next_status_check
  /\ next_status_check' = next_status_check + STATUS_CHECK_PERIOD
  /\ \E health \in ApiAnswers :
       facebook_state' =
         [facebook_state EXCEPT
            !.price_scraper_logged_in = health.price_scraper,
            !.marketplace_listing_logged_in = health.marketplace_listing,
            !.last_status_check = now,
            !.pending_requests =
               IF Len(@) > 10 THEN SubSeq(@, 6, Len(@)) ELSE @]
  /\ last_event' = [type |-> "status_check_interval"]
  /\ UNCHANGED <<started, login_calls, network>>
  /\ LoginFrame

\* the steps of the clock between the events of the login agent
LoginSteps == {60, 240}

\* time passes; the status check runs when it is due
LoginTick ==
  /\ \E d \in LoginSteps :
       /\ now + d <= MaxLoginTime
       /\ now + d <= next_status_check
       /\ now' = now + d
  /\ last_event' = [type |-> "tick"]
  /\ last_result' = NoneMsg
  /\ UNCHANGED <<coordVars, next_sweep, network, reportVars, apiVars,
                 visionVars, files, fbVars>>

\* the results on their way to the clients
LoginResultsInFlight ==
  {e \in network : e.msg.type = "FacebookLoginResult"}

\* a client takes a FacebookLoginResult from its mailbox
ReceiveLoginResult ==
  /\ \E e \in LoginResultsInFlight :
       /\ network' = network \ {e}
       /\ last_event' = [type |-> "FacebookLoginResult", to |-> e.to,
                         session_id |-> e.msg.session_id]
  /\ UNCHANGED <<started, fbVars>>
  /\ LoginFrame

\* the clients ask again once the answer to the last request has arrived
LoginNext ==
  \/ setup_facebook_login
  \/ LoginResultsInFlight = {} /\ FacebookLoginRequest
  \/ ReceiveLoginResult
  \/ status_check_interval
  \/ LoginTick

\* the Facebook login agent under requests arriving at any time
LoginSpec == Init /\ [][LoginNext]_vars

(* ------------------------------------------------------------------ *)
(* The web API and the agents behind it                                 *)
(* ------------------------------------------------------------------ *)
\* generate_session_id: f"web_session_{int(time.time() * 1000)}", t being the
\* reading of the clock in seconds
generate_session_id(t) == "web_session_" \o ToString(t * 1000)

\* os.path.join(UPLOAD_FOLDER, f"{session_id}_{file.filename}")
WebUploadPath(session_id) == [folder |-> "uploads", session_id |-> session_id]

\* os.path.join(CAPTURE_FOLDER, f"web_{session_id}_{file_path.name}")
CapturePath(session_id) == [folder |-> "captures", session_id |-> session_id]

\* os.path.join(CAPTURE_FOLDER, f"test_{session_id}_{file.filename}")
TestPath(session_id) ==
  [folder |-> "captures", session_id |-> "test_" \o session_id]

\* ProcessingSession.__init__; completed_at is -1 for None, and the list
\* cropped_objects is the set of its file names. The field object tells the
\* objects apart: it is the number of the upload that constructed this one
\* (history)
ProcessingSession(session_id) ==
  [session_id |-> session_id,
   status |-> "pending",
   uploaded_files |-> << >>,
   processed_files |-> << >>,
   detected_objects |-> << >>,
   cropped_objects |-> {},
   analysis_report |-> "",
   created_at |-> now,
   completed_at |-> -1,
   error_message |-> "",
   object |-> Len(web_tasks) + 1]

\* the message that trigger_detection_pipeline builds
WebCapturedImage(file_path, session_id) == CapturedImageMsg(session_id, file_path)

\* send_to_detection_agent: the message goes out when the agent context is set
send_to_detection_agent(captured_image) ==
  IF WEB_API \in started
    THEN {Envelope(DETECTION_ADDRESS, WEB_API, captured_image)}
    ELSE {}

\* what a step of the web API leaves alone
WebFrame(event) ==
  /\ last_event' = event
  /\ last_result' = NoneMsg
  /\ UNCHANGED <<coordVars, now, next_sweep, reportVars, apiVars, fbVars>>

\* setup_web_api: the startup event of the web API agent stores the context
setup_web_api ==
  /\ WEB_API \notin started
  /\ started' = started \cup {WEB_API}
  /\ WebFrame([type |-> "startup", agent |-> WEB_API])
  /\ UNCHANGED <<network, files, yolo_model, detection_state, gemini_model,
                 evaluator_state, processor_state, cropped_folder, webVars>>

\* POST /upload with one image: the session is stored under the generated
\* id, the file is saved, process_uploaded_files is queued and the id is
\* returned; a file of another type fails the session and the request
upload_files ==
  \E allowed \in BOOLEAN :
    LET session_id == generate_session_id(now)
        session == ProcessingSession(session_id)
    IN /\ Len(web_tasks) < MaxUploads
       /\ IF allowed
            THEN /\ processing_sessions' = Put(processing_sessions, session_id,
                      [session EXCEPT
                         !.uploaded_files = <<WebUploadPath(session_id)>>])
                 /\ files' = files \cup {WebUploadPath(session_id)}
                 /\ web_tasks' = Append(web_tasks,
                      [session_id |-> session_id, pc |-> "queued",
                       sent |-> FALSE, object |-> 0])
            ELSE /\ processing_sessions' = Put(processing_sessions, session_id,
                      [session EXCEPT
                         !.status = "failed",
                         !.error_message = "File type not allowed"])
                 /\ web_tasks' = Append(web_tasks,
                      [session_id |-> session_id, pc |-> "rejected",
                       sent |-> FALSE, object |-> 0])
                 /\ UNCHANGED files
       /\ WebFrame([type |-> "upload_files", agent |-> WEB_API,
                    session_id |-> session_id, allowed |-> allowed,
                    returned |-> allowed])
       /\ UNCHANGED <<network, agentVars>>

\* POST /test-pipeline with one image: the file is saved in the capture
\* folder, the detection pipeline is triggered and the generated id is
\* returned; a file of another type fails the request
test_pipeline ==
  \E allowed \in BOOLEAN :
    LET session_id == generate_session_id(now)
        file_path == TestPath(session_id)
    IN /\ IF allowed
            THEN /\ files' = files \cup {file_path}
                 /\ network' = network \cup send_to_detection_agent(
                                  WebCapturedImage(file_path, session_id))
            ELSE UNCHANGED <<files, network>>
       /\ WebFrame([type |-> "test_pipeline", agent |-> WEB_API,
                    session_id |-> session_id, allowed |-> allowed,
                    returned |-> allowed])
       /\ UNCHANGED <<agentVars, webVars>>

\* GET /session/{session_id}: the response
get_session_status(session_id) ==
  IF session_id \notin DOMAIN processing_sessions
    THEN [status_code |-> 404, detail |-> "Session not found"]
    ELSE [status_code |-> 200,
          detail |-> processing_sessions[session_id].status]

\* the ProcessingSession object of a task is the stored one while the id is
\* stored and no later upload has replaced the object; otherwise the task
\* alone holds it
StoreSession(store, task, session) ==
  IF /\ task.session_id \in DOMAIN store
     /\ store[task.session_id].object = task.object
    THEN Put(store, task.session_id, session)
    ELSE store

\* process_uploaded_files up to its sleep: the task reads the session stored
\* under its id, and a deleted session ends it with a KeyError; a missing
\* upload fails the copy; otherwise each uploaded image is copied to the
\* capture folder and sent to the detection agent
process_uploaded_files_start ==
  \E i \in DOMAIN web_tasks :
    LET session_id == web_tasks[i].session_id
        dest_path == CapturePath(session_id)
        sends == send_to_detection_agent(WebCapturedImage(dest_path, session_id))
    IN /\ web_tasks[i].pc = "queued"
       /\ IF session_id \notin DOMAIN processing_sessions
            THEN /\ web_tasks' = [web_tasks EXCEPT ![i].pc = "done"]
                 /\ UNCHANGED <<processing_sessions, files, network>>
          ELSE LET session == processing_sessions[session_id]
                   task == [web_tasks[i] EXCEPT !.object = session.object]
               IN IF session.uploaded_files = << >>
                    THEN /\ web_tasks' = [web_tasks EXCEPT
                                            ![i] = [task EXCEPT !.pc = "sleeping"]]
                         /\ processing_sessions' =
                              StoreSession(processing_sessions, task,
                                [session EXCEPT !.status = "processing",
                                                !.processed_files = << >>])
                         /\ UNCHANGED <<files, network>>
                  ELSE IF session.uploaded_files[1] \notin files
                    THEN /\ web_tasks' = [web_tasks EXCEPT
                                            ![i] = [task EXCEPT !.pc = "done"]]
                         /\ processing_sessions' =
                              StoreSession(processing_sessions, task,
                                [session EXCEPT
                                   !.status = "failed",
                                   !.error_message = "No such file or directory"])
                         /\ UNCHANGED <<files, network>>
                  ELSE /\ files' = files \cup {dest_path}
                       /\ network' = network \cup sends
                       /\ web_tasks' = [web_tasks EXCEPT
                             ![i] = [task EXCEPT !.pc = "sleeping",
                                                 !.sent = (sends # {})]]
                       /\ processing_sessions' =
                             StoreSession(processing_sessions, task,
                               [session EXCEPT
                                  !.status = "processing",
                                  !.processed_files = <<dest_path>>])
       /\ WebFrame([type |-> "process_uploaded_files", agent |-> WEB_API,
                    session_id |-> session_id, pc |-> "start"])
       /\ UNCHANGED agentVars

\* the .jpg files of CROPPED_FOLDER whose name holds the session id: a crop
\* is named f"{capture_ts}_{crop_index}_{safe_class_name}.jpg"
CroppedOf(session_id) ==
  {f \in cropped_folder : f.class_name = session_id}

\* process_uploaded_files after asyncio.sleep(30): the crops of the session
\* are listed and the session is completed
process_uploaded_files_finish ==
  \E i \in DOMAIN web_tasks :
    LET task == web_tasks[i]
        session_id == task.session_id
    IN /\ task.pc = "sleeping"
       /\ web_tasks' = [web_tasks EXCEPT ![i].pc = "done"]
       /\ processing_sessions' =
            IF session_id \in DOMAIN processing_sessions
              THEN StoreSession(processing_sessions, task,
                     [processing_sessions[session_id] EXCEPT
                        !.cropped_objects = CroppedOf(session_id),
                        !.status = "completed",
                        !.completed_at = now])
              ELSE processing_sessions
       /\ WebFrame([type |-> "process_uploaded_files", agent |-> WEB_API,
                    session_id |-> session_id, pc |-> "finish"])
       /\ UNCHANGED <<network, files, agentVars>>

\* DELETE /session/{session_id}
delete_session ==
  \E session_id \in DOMAIN processing_sessions :
    LET session == processing_sessions[session_id]
    IN /\ files' = files \ (Range(session.uploaded_files)
                               \cup Range(session.processed_files))
       /\ processing_sessions' = Pop(processing_sessions, {session_id})
       /\ WebFrame([type |-> "delete_session", agent |-> WEB_API,
                    session_id |-> session_id])
       /\ UNCHANGED <<network, agentVars, web_tasks>>

\* sorted(glob.glob("captures/*.jpg")) without the files already processed
UnprocessedCaptures ==
  {f \in files : f.folder = "captures"} \ detection_state.processed_files

\* the loop of process_batch_images over image_paths, with the prediction
\* that the detector gives for each
RECURSIVE batch_from(_, _, _, _)
batch_from(state, image_paths, predictions, sends) ==
  IF image_paths = << >> THEN [state |-> state, sends |-> sends]
  ELSE LET image_path == Head(image_paths)
           mock_msg == CapturedImageMsg("batch_processing", image_path)
           r == process_captured_image(state, mock_msg, predictions[image_path])
       IN batch_from(r.state, Tail(image_paths), predictions,
                     sends \cup r.sends)

\* the paths of a set in sorted order; the capture folder of the model holds
\* one file for each web session id
SortedPaths(S) ==
  CHOOSE q \in [1..Cardinality(S) -> S] :
    \A i, j \in DOMAIN q : i # j => q[i] # q[j]

\* process_batch_images: the interval handler of the detection agent
process_batch_images(all_predictions) ==
  \E predictions \in [UnprocessedCaptures -> all_predictions] :
    /\ DETECTION_ADDRESS \in started
    /\ yolo_model
    /\ UnprocessedCaptures # {}
    /\ LET r == batch_from(detection_state, SortedPaths(UnprocessedCaptures),
                           predictions, {})
       IN /\ detection_state' = r.state
          /\ network' = network \cup r.sends
          /\ last_event' = [type |-> "process_batch_images",
                            agent |-> DETECTION_ADDRESS,
                            predictions |-> predictions,
                            sends |-> r.sends]
    /\ AgentFrame
    /\ UNCHANGED <<started, yolo_model, gemini_model, evaluator_state,
                   processor_state, cropped_folder>>

\* a ProcessingResult of the image processor reaches the report coordinator
ReportReceives ==
  \E e \in network :
    /\ e.to = REPORT_COORDINATOR
    /\ e.msg.type = "ProcessingResult"
    /\ coordinate_processing_result(e.msg)
    /\ network' = network \ {e}
    /\ last_event' = [type |-> "ProcessingResult", to |-> REPORT_COORDINATOR,
                      session_id |-> e.msg.session_id, msg |-> e.msg]
    /\ last_result' = NoneMsg
    /\ UNCHANGED <<coordVars, now, next_sweep, apiVars, fbVars, visionVars, files>>

\* the three agents on a few predictions and a few replies
VisionDetection == DetectionAgent(SomePredictions)
VisionBatch == process_batch_images(SomePredictions)
VisionEvaluation == EvaluatorAgent(SomeReplies)

VisionNext ==
  \/ setup_web_api
  \/ setup_yolo_model
  \/ setup_ai_evaluator
  \/ web_tasks = << >> /\ upload_files
  \/ process_uploaded_files_start
  \/ process_uploaded_files_finish
  \/ delete_session
  \/ UploadImage
  \/ VisionDetection
  \/ VisionBatch
  \/ VisionEvaluation
  \/ ProcessorAgent
  \/ total_sessions = 0 /\ StartSystem
  \/ ReportReceives

\* the web API and the API wrapper feeding the detection agent, the AI
\* evaluator, the image processor and the report coordinator
VisionSpec == Init /\ [][VisionNext]_vars

(* ------------------------------------------------------------------ *)
(* The three session stores under arbitrary message delivery            *)
(* ------------------------------------------------------------------ *)
\* a stage result for an id that no client has requested reaches the
\* pipeline coordinator
StrayResult ==
  \E msg \in ImageRecognitionResults \cup PriceResearchResults
               \cup ListingCreationResults :
    /\ msg.session_id \notin RequestIds
    /\ CoordinatorDispatch(msg)
    /\ last_event' = msg
    /\ UNCHANGED <<now, next_sweep, network, reportVars, apiVars, fbVars, visionVars, files>>

\* the pipeline coordinator is as constructed
PipelineIdle ==
  active_sessions = << >> /\ completed_sessions = 0 /\ failed_sessions = 0

\* the report coordinator is as constructed
ReportIdle == total_sessions = 0

\* the API wrapper is as constructed
ApiIdle == api_sessions = << >>

\* The three components share no state. A run exercises one of them: a
\* component takes steps while the other two are as constructed.
MsgNext ==
  \/ ReportIdle /\ ApiIdle /\ CompletePipelineRequest
  \/ ReportIdle /\ ApiIdle /\ ImageRecognitionResult
  \/ ReportIdle /\ ApiIdle /\ PriceResearchResult
  \/ ReportIdle /\ ApiIdle /\ ListingCreationResult
  \/ ReportIdle /\ ApiIdle /\ StrayResult
  \/ PipelineIdle /\ ApiIdle /\ StartSystem
  \/ PipelineIdle /\ ApiIdle /\ ProcessingResult
  \/ PipelineIdle /\ ReportIdle /\ UploadImage
  \/ PipelineIdle /\ ReportIdle /\ DetectionResult
  \/ PipelineIdle /\ ReportIdle /\ EvaluationResult
  \/ PipelineIdle /\ ReportIdle /\ ApiProcessingResult

\* the message handlers of the pipeline coordinator, the report coordinator
\* and the API wrapper, and the operations that create their sessions
MsgSpec == Init /\ [][MsgNext]_vars

\* no image has been sent towards the detection agent
VisionIdle == started = {} /\ api_sessions = << >>

\* no pipeline request has been made
PipelineUntouched == PipelineIdle /\ network = {} /\ now = 0

\* The pipeline agents and the detection agent share no state. A run
\* exercises the pipeline, or an image on its way through the detection agent.
StageNext ==
  \/ VisionIdle /\ ClientRequest
  \/ VisionIdle /\ ImageRecognitionAgent
  \/ VisionIdle /\ PriceScraperAgent
  \/ VisionIdle /\ MarketplaceListingAgent
  \/ VisionIdle /\ EbayImprovedAgent
  \/ VisionIdle /\ CoordinatorReceives
  \/ VisionIdle /\ Sweep
  \/ VisionIdle /\ Tick
  \/ PipelineUntouched /\ setup_yolo_model
  \/ PipelineIdle /\ UploadImage
  \/ PipelineIdle /\ DetectionAgent(AllPredictions)

\* the agents that pass work on to a next stage
StageSpec == Init /\ [][StageNext]_vars

\* the web API is as constructed and has saved no file
WebIdle ==
  /\ processing_sessions = << >> /\ web_tasks = << >>
  /\ started = {} /\ files = {} /\ network = {}

\* the files that test_pipeline has saved
TestFiles == {f \in files : f.folder = "captures"} \ {CapturePath(f.session_id) : f \in files}

\* The web API and the report coordinator share no state. A run exercises
\* the endpoints of the web API, or the StartSystem messages of the report
\* coordinator, over two readings of the clock.
TriggerNext ==
  \/ ReportIdle /\ setup_web_api
  \/ ReportIdle /\ upload_files
  \/ ReportIdle /\ Cardinality(TestFiles) < MaxUploads /\ test_pipeline
  \/ ReportIdle /\ process_uploaded_files_start
  \/ ReportIdle /\ process_uploaded_files_finish
  \/ ReportIdle /\ delete_session
  \/ WebIdle /\ StartSystem
  \/ Sweep
  \/ now < TimeStep /\ Tick

\* the endpoints and the messages that start a session, with the clock that
\* their session ids are derived from
TriggerSpec == Init /\ [][TriggerNext]_vars


(* ------------------------------------------------------------------ *)
(* Properties of the pipeline coordinator                               *)
(* ------------------------------------------------------------------ *)
ResultTypes ==
  {"ImageRecognitionResult", "PriceResearchResult", "ListingCreationResult"}

\* the fields of a session that a stage result handler may write
SessionFields(session) ==
  <<session.steps_completed, session.image_recognition_result,
    session.price_research_result, session.listing_creation_result,
    session.completed>>

\* the stage result, if any, that the session already holds for the stage of
\* message msg
RecordedFor(session, msg) ==
  CASE msg.type = "ImageRecognitionResult" -> session.image_recognition_result
    [] msg.type = "PriceResearchResult" -> session.price_research_result
    [] msg.type = "ListingCreationResult" -> session.listing_creation_result

\* C1: once a session is finalized (completed = True), a later stage result
\* for its id changes none of steps_completed, the three stored stage
\* results and completed: the late message is dropped.
C1_LateResultDropped ==
  [][LET e == last_event' IN
       (/\ e.type \in ResultTypes
        /\ Tracked(e.session_id)
        /\ active_sessions[e.session_id].completed)
       => /\ e.session_id \in DOMAIN active_sessions'
          /\ SessionFields(active_sessions'[e.session_id])
               = SessionFields(active_sessions[e.session_id])]_vars

\* C3: a second copy of a stage result that the session has already recorded
\* leaves the session and the global counters as they were.
C3_DuplicateResultNoEffect ==
  [][LET e == last_event' IN
       (/\ e.type \in ResultTypes
        /\ Tracked(e.session_id)
        /\ RecordedFor(active_sessions[e.session_id], e) = e)
       => UNCHANGED coordVars]_vars

\* C4: a CompletePipelineRequest for an id already in active_sessions keeps
\* the existing session; it is not replaced by a fresh one (stated for the
\* requests whose dispatch does not raise).
C4_CreateIdempotent ==
  [][LET e == last_event' IN
       (/\ e.type = "CompletePipelineRequest"
        /\ e.send_ok
        /\ Tracked(e.session_id))
       => /\ e.session_id \in DOMAIN active_sessions'
          /\ active_sessions'[e.session_id] = active_sessions[e.session_id]]_vars

\* C5: finalize is idempotent.  A stage result for a session that is not yet
\* completed increments exactly one of the two counters by one exactly when
\* it completes the session; a stage result for a completed session (a second
\* finalize call, whatever its success value) leaves the flag set, the
\* counters unchanged and composes no second final result.
C5_FinalizeOnce ==
  [][LET e == last_event' IN
       (e.type \in ResultTypes /\ Tracked(e.session_id))
       => LET before == active_sessions[e.session_id]
              after == active_sessions'[e.session_id]
              grown == (completed_sessions' + failed_sessions')
                         - (completed_sessions + failed_sessions)
          IN /\ completed_sessions' >= completed_sessions
             /\ failed_sessions' >= failed_sessions
             /\ before.completed =>
                  /\ after.completed
                  /\ after.finalized_at = before.finalized_at
                  /\ grown = 0
                  /\ last_result' = NoneMsg
             /\ ~before.completed =>
                  /\ grown = (IF after.completed THEN 1 ELSE 0)
                  /\ after.completed <=> last_result' # NoneMsg]_vars

\* C5 witness: a session finalized by a failed image recognition has then
\* received a failed price research result (a second finalize call), and
\* one counter has been incremented once.
C5_Witness ==
  /\ last_event.type = "PriceResearchResult"
  /\ ~last_event.success
  /\ Tracked(last_event.session_id)
  /\ LET session == active_sessions[last_event.session_id]
     IN /\ session.completed
        /\ session.image_recognition_result.type = "ImageRecognitionResult"
        /\ ~session.image_recognition_result.success
        /\ session.price_research_result = last_event
        /\ session.steps_completed =
             <<"image_recognition_initiated", "image_recognition_completed",
               "price_research_completed">>
  /\ failed_sessions = 1
  /\ completed_sessions = 0

\* C7: the sweep turns a non-terminal session older than the stall threshold
\* into a FAILED terminal session with reason "stalled" (kept in the store,
\* completed set, error reason recorded).
C7_StalledBecomesFailed ==
  [][last_event'.type = "cleanup_old_sessions"
       => \A s \in StalledToRemove :
            /\ s \in DOMAIN active_sessions'
            /\ active_sessions'[s].completed
            /\ active_sessions'[s].error_message.stage = "stalled"]_vars

\* C8: a session finalized at time t is still in active_sessions after every
\* sweep that runs before t + 300 s: the sweep removes a terminal session only
\* when at least the grace window has passed since its finalization.
C8_RemovedAfterGrace ==
  [][last_event'.type = "cleanup_old_sessions"
       => \A s \in DOMAIN active_sessions :
            (active_sessions[s].completed /\ s \notin DOMAIN active_sessions')
              => now - active_sessions[s].finalized_at >= COMPLETED_MAX_AGE]_vars

\* C10: a session is finalized with success=True only after a successful
\* ImageRecognitionResult and a successful PriceResearchResult have been
\* recorded for it.
C10_SuccessNeedsEarlierStages ==
  [][LET e == last_event' IN
       (/\ e.type \in ResultTypes
        /\ Tracked(e.session_id)
        /\ last_result'.type = "CompletePipelineResult"
        /\ last_result'.success)
       => LET before == active_sessions[e.session_id]
          IN /\ before.image_recognition_result.type = "ImageRecognitionResult"
             /\ before.image_recognition_result.success
             /\ before.image_recognition_result.product_name # NoneStr
             /\ before.price_research_result.type = "PriceResearchResult"
             /\ before.price_research_result.success]_vars


\* the values the clock takes
ClockValues == {t \in 0..MaxTime : t % TimeStep = 0}

\* the session created at time t under id s is in the store and not terminal
Open(s, t) ==
  /\ Tracked(s)
  /\ active_sessions[s].start_time = t
  /\ ~active_sessions[s].completed

\* C6: every session recorded in active_sessions eventually becomes terminal
\* or leaves the store, even if no stage result ever arrives, as long as time
\* advances and the periodic sweep keeps running.
C6_EverySessionEnds ==
  \A s \in RequestIds : \A t \in ClockValues : Open(s, t) ~> ~Open(s, t)

\* C6 witness: the sweep has just removed a session that no stage result
\* ever completed.
C6_Witness ==
  /\ last_event.type = "cleanup_old_sessions"
  /\ last_event.stalled # {}
  /\ \A s \in last_event.stalled : ~Tracked(s)
  /\ completed_sessions = 0
  /\ failed_sessions = 1


\* the listing stage has reported success for session id s
ListingSucceeded(s) ==
  \E e \in network :
    /\ e.sender = MARKETPLACE_LISTING_ADDRESS
    /\ e.msg.type = "ListingCreationResult"
    /\ e.msg.session_id = s
    /\ e.msg.success

\* every message sent for session id s has reached the agent it was sent to
\* and has been handled if that agent handles it
Quiescent(s) ==
  \A e \in network : e.msg.session_id = s => ~Deliverable(e)

\* C9: when image recognition has identified a product, price research has
\* found comparables and listing creation has succeeded, and every message
\* has been delivered to the address it was sent to, the session still in the
\* store (the stall sweep has not run on it) is finalized, with success.
C9_SuccessfulRunFinalized ==
  \A s \in RequestIds :
    (ListingSucceeded(s) /\ Quiescent(s) /\ Tracked(s))
      => /\ active_sessions[s].completed
         /\ active_sessions[s].listing_creation_result.type
              = "ListingCreationResult"
         /\ active_sessions[s].listing_creation_result.success


\* the result message types of the API wrapper
ApiResultTypes == {"DetectionResult", "EvaluationResult", "ProcessingResult"}

\* C2: a result message whose session id the receiving component does not
\* track is a no-op. In the pipeline coordinator (id absent from
\* active_sessions) the session map and both counters are unchanged; in the
\* report coordinator (id different from current_session or absent from
\* sessions) sessions, current_session, total_sessions, global_seen_objects
\* and processing_results are unchanged; in the API wrapper (id absent from
\* sessions) the session map is unchanged. No session is created.
C2_UnknownSessionNoOp ==
  [][LET e == last_event' IN
       /\ (e.type \in ResultTypes /\ ~Tracked(e.session_id))
            => UNCHANGED coordVars
       /\ (/\ e.type = "ProcessingResult"
           /\ e.to = REPORT_COORDINATOR
           /\ (\/ e.session_id # current_session
               \/ e.session_id \notin DOMAIN sessions))
            => UNCHANGED reportVars
       /\ (/\ e.type \in ApiResultTypes
           /\ e.to = API_WRAPPER
           /\ e.session_id \notin DOMAIN api_sessions)
            => UNCHANGED apiVars]_vars

\* C2 witness: the API wrapper, which tracks a session that has completed,
\* has just handled a DetectionResult for an id it does not track
C2_Witness ==
  /\ last_event.type = "DetectionResult"
  /\ last_event.session_id \notin DOMAIN api_sessions
  /\ \E s \in DOMAIN api_sessions : api_sessions[s].completed


\* a stage result that reports a failure of its stage: success = False, or a
\* recognition that succeeded without a product name
IsFailure(e) ==
  \/ ~e.success
  \/ e.type = "ImageRecognitionResult" /\ e.product_name = NoneStr

\* the reason a failing stage result is to be finalized with: the stage it
\* names and the collaborator's error text
ExpectedReason(e) ==
  IF e.success
    THEN [stage |-> "No product identified in image", detail |-> NoneStr]
    ELSE [stage |-> CASE e.type = "ImageRecognitionResult"
                           -> "Image recognition failed"
                      [] e.type = "PriceResearchResult"
                           -> "Price research failed"
                      [] e.type = "ListingCreationResult"
                           -> "Listing creation failed",
          detail |-> e.error_message]

\* C11: a failing stage result delivered for a tracked session that is not
\* yet finalized finalizes it as failed: completed becomes True,
\* failed_sessions grows by one, completed_sessions stays, and the composed
\* result has success = False and a reason naming the failing stage and
\* carrying the collaborator's error text (for a recognition without product
\* name: "No product identified in image").
C11_FailureFinalizesFailed ==
  [][LET e == last_event' IN
       (/\ e.type \in ResultTypes
        /\ Tracked(e.session_id)
        /\ ~active_sessions[e.session_id].completed
        /\ IsFailure(e))
       => /\ e.session_id \in DOMAIN active_sessions'
          /\ active_sessions'[e.session_id].completed
          /\ failed_sessions' = failed_sessions + 1
          /\ completed_sessions' = completed_sessions
          /\ last_result'.type = "CompletePipelineResult"
          /\ ~last_result'.success
          /\ last_result'.error_message = ExpectedReason(e)]_vars

\* C11 witness: a failed price research result has just finalized a session
\* that had recorded a successful image recognition
C11_Witness ==
  /\ last_event.type = "PriceResearchResult"
  /\ ~last_event.success
  /\ last_result.type = "CompletePipelineResult"
  /\ last_result.error_message.stage = "Price research failed"
  /\ last_result.error_message.detail \in ErrorTexts
  /\ failed_sessions = 1

\* C12: after a session has been finalized as failed, the session in the
\* store carries the reason: its error_message equals the reason passed to
\* finalize_pipeline_session.
C12_FailedSessionKeepsReason ==
  [][(/\ last_result'.type = "CompletePipelineResult"
      /\ ~last_result'.success)
     => /\ last_result'.session_id \in DOMAIN active_sessions'
        /\ active_sessions'[last_result'.session_id].error_message
             = last_result'.error_message]_vars

\* C13: when a session is finalized as failed at price research or listing
\* creation, the stage results recorded before the failing one are still
\* stored on the session and are part of the composed result, together with
\* the steps_completed list.
C13_EarlierOutputsKept ==
  [][LET e == last_event' IN
       (/\ e.type \in {"PriceResearchResult", "ListingCreationResult"}
        /\ Tracked(e.session_id)
        /\ ~active_sessions[e.session_id].completed
        /\ ~e.success)
       => LET before == active_sessions[e.session_id]
              after == active_sessions'[e.session_id]
              result == last_result'
          IN /\ after.image_recognition_result
                  = before.image_recognition_result
             /\ result.image_recognition = before.image_recognition_result
             /\ e.type = "ListingCreationResult"
                  => /\ after.price_research_result
                          = before.price_research_result
                     /\ result.price_research = before.price_research_result
             /\ RecordedFor(after, e) = e
             /\ after.steps_completed = result.steps_completed
             /\ \A i \in DOMAIN before.steps_completed :
                  result.steps_completed[i] = before.steps_completed[i]]_vars

\* C13 witness: a failed listing creation has just finalized a session whose
\* composed result carries the successful image recognition and price
\* research recorded before it
C13_Witness ==
  /\ last_event.type = "ListingCreationResult"
  /\ ~last_event.success
  /\ last_result.type = "CompletePipelineResult"
  /\ last_result.image_recognition.type = "ImageRecognitionResult"
  /\ last_result.image_recognition.success
  /\ last_result.price_research.type = "PriceResearchResult"
  /\ last_result.price_research.success
  /\ Tracked(last_event.session_id)
  /\ active_sessions[last_event.session_id].image_recognition_result
       = last_result.image_recognition


\* the coordinates written in the key "(x1, y1, x2, y2)"
CoordsOfKey(key) == <<key[2].n, key[4].n, key[6].n, key[8].n>>

\* (xmax - xmin) * (ymax - ymin) of the box written in a key
AreaOfKey(key) ==
  (CoordsOfKey(key)[3] - CoordsOfKey(key)[1])
    * (CoordsOfKey(key)[4] - CoordsOfKey(key)[2])

\* the position in detection map d of the largest box of class c, the first
\* one among the largest
LargestOf(d, c) ==
  CHOOSE i \in DOMAIN d :
    /\ d[i].v = c
    /\ \A j \in DOMAIN d :
         d[j].v = c => \/ AreaOfKey(d[j].k) < AreaOfKey(d[i].k)
                       \/ AreaOfKey(d[j].k) = AreaOfKey(d[i].k) /\ i <= j

\* the class labels of detection map d
ClassesOf(d) == {d[i].v : i \in DOMAIN d}

\* C17: in every DetectionResult, largest_instances (the value of
\* select_largest_instances on detected_objects) has exactly one entry per
\* class label of detected_objects, each entry is an entry of
\* detected_objects, its area is the maximum of its class, and among the
\* entries tied for the maximum it is the first in iteration order.
C17_LargestInstances ==
  \A e \in network :
    e.msg.type = "DetectionResult" /\ e.sender = DETECTION_ADDRESS
    => LET d == e.msg.detected_objects
           l == e.msg.largest_instances
       IN /\ ClassesOf(l) = ClassesOf(d)
          /\ Len(l) = Cardinality(ClassesOf(d))
          /\ \A i \in DOMAIN l : l[i] = d[LargestOf(d, l[i].v)]

\* C17 witness: a DetectionResult whose detected_objects holds two boxes of
\* one class tied for the largest area, a smaller box of that class list and
\* largest_instances keeps the first of the tied
C17_Witness ==
  \E e \in network :
    /\ e.msg.type = "DetectionResult"
    /\ Len(e.msg.detected_objects) = 3
    /\ Len(e.msg.largest_instances) = 1
    /\ \E i, j \in DOMAIN e.msg.detected_objects :
         /\ i < j
         /\ AreaOfKey(e.msg.detected_objects[i].k)
              = AreaOfKey(e.msg.detected_objects[j].k)
         /\ e.msg.detected_objects[i].k # e.msg.detected_objects[j].k
         /\ e.msg.largest_instances[1] = e.msg.detected_objects[i]
         /\ i > 1

\* the lower-cased names of a classifier's list
LoweredNames(names) == {Lower(names[i].text) : i \in DOMAIN names}

WellFormed(reply) ==
  reply.kind = "list" /\ \A i \in DOMAIN reply.items : reply.items[i].is_str

\* C19: for every classifier output the evaluator, with its model loaded and
\* the image on disk, emits exactly one EvaluationResult; for a malformed
\* output (unparseable, not a list, or a list with a non-string element) the
\* resellable list of that result is empty.
C19_MalformedReplyStillAnswered ==
  [][LET ev == last_event' IN
       (/\ ev.type = "DetectionResult"
        /\ ev.agent = AI_EVALUATOR_ADDRESS
        /\ gemini_model
        /\ ev.found)
       => /\ Cardinality(ev.sends) = 1
          /\ \A s \in ev.sends :
               /\ s.msg.type = "EvaluationResult"
               /\ ~WellFormed(ev.reply) => s.msg.resellable_items = << >>]_vars

\* the classes of detection map d that a crop is due for under the
\* classifier's list
DueClasses(d, names) == {c \in ClassesOf(d) : Lower(c) \in LoweredNames(names)}

\* C20: when every crop succeeds, the crop stage produces exactly one crop
\* record for each class that has a detection and whose lower-cased name is
\* in the lower-cased reply, taken from the largest box of the class, and no
\* crop for another class.
C20_OneCropPerResellableClass ==
  [][LET ev == last_event' IN
       (/\ ev.type = "EvaluationResult"
        /\ ev.agent = IMAGE_PROCESSOR_ADDRESS
        /\ ev.found
        /\ ev.crop_fails = {})
       => LET d == ev.msg.detected_objects
              due == DueClasses(d, ev.msg.resellable_items)
          IN IF due = {}
               THEN ev.sends = {} /\ cropped_folder' = cropped_folder
               ELSE /\ Cardinality(ev.sends) = 1
                    /\ \A s \in ev.sends :
                         LET summary == s.msg.processing_summary
                         IN /\ DictKeys(summary) = due
                            /\ Len(summary) = Cardinality(due)
                            /\ Len(s.msg.cropped_files) = Cardinality(due)
                            /\ Range(s.msg.resellable_objects) = due
                            /\ \A i \in DOMAIN summary :
                                 summary[i].v.coordinates =
                                   CoordsOfKey(d[LargestOf(d, summary[i].k)].k)
                            /\ \A i \in DOMAIN summary :
                                 summary[i].v.cropped_file
                                   \in Range(s.msg.cropped_files)
                                       \cap cropped_folder']_vars

\* C20 witness: detections (0,0,50,50) laptop, (0,0,100,100) laptop and
\* (10,10,30,30) bottle with the reply ["Laptop"] have given exactly one
\* crop, of the laptop at (0,0,100,100)
C20_Witness ==
  /\ last_event.type = "EvaluationResult"
  /\ last_event.agent = IMAGE_PROCESSOR_ADDRESS
  /\ Len(last_event.msg.detected_objects) = 3
  /\ ClassesOf(last_event.msg.detected_objects) = {"laptop", "bottle"}
  /\ last_event.msg.resellable_items = <<StrItem("Laptop")>>
  /\ \E s \in last_event.sends :
       /\ Len(s.msg.cropped_files) = 1
       /\ s.msg.processing_summary[1].k = "laptop"
       /\ s.msg.processing_summary[1].v.coordinates = <<0, 0, 100, 100>>


\* the CapturedImage of session id is still on its way to the detection agent
Undelivered(id) ==
  \E e \in network : e.msg.type = "CapturedImage" /\ e.msg.session_id = id

\* C14: when the detector is unavailable, a session whose image the detection
\* agent has handled is failed at the component that tracks it, with a
\* reason: the session of the API wrapper has status "failed", and the
\* session of the web API, once its task has ended, has status "failed" and
\* an error message.
C14_DetectorFailureFailsSession ==
  (DETECTION_ADDRESS \in started /\ ~yolo_model)
  => /\ \A id \in DOMAIN api_sessions :
          ~Undelivered(id) => api_sessions[id].status = "failed"
     /\ \A id \in DOMAIN processing_sessions :
          (/\ \E i \in DOMAIN web_tasks :
                /\ web_tasks[i].session_id = id
                /\ web_tasks[i].sent
                /\ web_tasks[i].pc = "done"
           /\ ~Undelivered(id))
          => /\ processing_sessions[id].status = "failed"
             /\ processing_sessions[id].error_message # ""

\* the detector is unavailable, the image file is missing, or the detector
\* call is made and raises
DetectionFails(ev) ==
  \/ ~yolo_model
  \/ ~ev.found
  \/ ev.fresh /\ ev.prediction.raises

\* C15: when the detector is unavailable, the image file is missing or the
\* detector call raises, the handler of CapturedImage sends nothing: no
\* DetectionResult is added to the network, and the evaluator and the image
\* processor are not invoked; an image whose prediction raises in the batch
\* run gets no DetectionResult either.
C15_NoResultOnDetectionFailure ==
  [][LET ev == last_event' IN
       /\ (/\ ev.type = "CapturedImage"
           /\ ev.agent = DETECTION_ADDRESS
           /\ DetectionFails(ev))
          => /\ ev.sends = {}
             /\ network' \subseteq network
             /\ UNCHANGED <<evaluator_state, processor_state, cropped_folder>>
       /\ ev.type = "process_batch_images"
          => \A image_path \in DOMAIN ev.predictions :
               ev.predictions[image_path].raises
               => \A s \in network' \ network :
                    s.msg.image_path # image_path]_vars

\* C15 witness: the detection agent, with its model loaded, has handled a new
\* image that is on disk, the detector call has raised and nothing was sent
C15_Witness ==
  /\ last_event.type = "CapturedImage"
  /\ last_event.agent = DETECTION_ADDRESS
  /\ yolo_model
  /\ last_event.found
  /\ last_event.fresh
  /\ last_event.prediction.raises
  /\ last_event.sends = {}

\* C16: when the evaluation of an image yields no resellable item, the image
\* processor still emits a ProcessingResult, with empty crop lists, for the
\* report coordinator.
C16_EmptyEvaluationStillReported ==
  [][LET ev == last_event' IN
       (/\ ev.type = "EvaluationResult"
        /\ ev.agent = IMAGE_PROCESSOR_ADDRESS
        /\ ev.found
        /\ ev.msg.filtered_detections = << >>)
       => \E s \in ev.sends :
            /\ s.msg.type = "ProcessingResult"
            /\ s.msg.session_id = ev.msg.session_id
            /\ s.msg.cropped_files = << >>]_vars


\* the detector is called for the image of event ev and returns
DetectorReturns(ev) ==
  /\ ev.type = "CapturedImage"
  /\ ev.agent = DETECTION_ADDRESS
  /\ yolo_model
  /\ ev.found
  /\ ev.fresh
  /\ ~ev.prediction.raises

\* C30: when the detector returns no detection, the detection agent sends no
\* DetectionResult and leaves images_processed as it was; when it returns
\* detections, the agent sends exactly one DetectionResult, to the AI
\* evaluator, whose detected_objects holds a reported class for every
\* reported box, whose largest_instances holds the largest instance of every
\* class of the detections, whose unique_classes is the set of classes of
\* largest_instances without repetition, whose detection_count is the number
\* of largest instances, and images_processed grows by one.
C30_EmptyDetectionRejected ==
  [][LET ev == last_event' IN
       DetectorReturns(ev)
       => IF ev.prediction.boxes = << >>
            THEN /\ ev.sends = {}
                 /\ network' \subseteq network
                 /\ detection_state'.images_processed
                      = detection_state.images_processed
            ELSE /\ Cardinality(ev.sends) = 1
                 /\ detection_state'.images_processed
                      = detection_state.images_processed + 1
                 /\ \A s \in ev.sends :
                      LET d == s.msg.detected_objects
                          l == s.msg.largest_instances
                          u == s.msg.unique_classes
                      IN /\ s.to = AI_EVALUATOR_ADDRESS
                         /\ s.msg.type = "DetectionResult"
                         /\ {<<CoordsOfKey(d[i].k), d[i].v>> : i \in DOMAIN d}
                              \subseteq
                              {<<ev.prediction.boxes[i].coords,
                                 ev.prediction.boxes[i].class_name>> :
                                   i \in DOMAIN ev.prediction.boxes}
                         /\ {CoordsOfKey(d[i].k) : i \in DOMAIN d}
                              = {ev.prediction.boxes[i].coords :
                                   i \in DOMAIN ev.prediction.boxes}
                         /\ \A i \in DOMAIN l : l[i] = d[LargestOf(d, l[i].v)]
                         /\ Len(l) = Cardinality(ClassesOf(d))
                         /\ Range(u) = ClassesOf(l)
                         /\ Len(u) = Cardinality(ClassesOf(l))
                         /\ s.msg.detection_count = Len(l)]_vars

\* C30 witness: the detector has returned three boxes of two classes and the
\* agent has sent a DetectionResult with two largest instances
C30_Witness ==
  /\ DetectorReturns(last_event)
  /\ Len(last_event.prediction.boxes) = 3
  /\ \E s \in last_event.sends :
       /\ Len(s.msg.detected_objects) = 3
       /\ s.msg.detection_count = 2
       /\ Len(s.msg.unique_classes) = 2


\* the stage agents that answer a requester
StageAgents ==
  {IMAGE_RECOGNITION_ADDRESS, PRICE_SCRAPER_ADDRESS,
   MARKETPLACE_LISTING_ADDRESS}

\* the request types of the stages
StageRequestTypes ==
  {"ImageRecognitionRequest", "PriceResearchRequest", "ListingRequest"}

\* the result messages that stage event ev has sent to its requester
ResultsOf(ev) ==
  {s \in ev.sends : s.to = ev.sender /\ s.msg.type \in ResultTypes}

\* the requests that stage event ev has sent to a next stage
RequestsOf(ev) == {s \in ev.sends : s.msg.type \in StageRequestTypes}

\* the last step was a stage agent handling a request
StageHandled(ev) ==
  ev.type \in StageRequestTypes /\ ev.agent \in StageAgents

\* C27: for every request it handles, a stage agent (image recognition,
\* price scraper, marketplace listing) sends exactly one result message to
\* the requester, on every path, also when an exception is raised after a
\* successful API call.
C27_ExactlyOneResult ==
  [][StageHandled(last_event')
       => Cardinality(ResultsOf(last_event')) = 1]_vars

\* C28: for each message it handles, a stage agent emits at most one request
\* to the next stage, and none unless its own stage succeeded with what the
\* next stage needs: image recognition a successful result with a product
\* name, the price scraper a successful result with at least one comparable;
\* the detection agent emits at most one DetectionResult, and none for an
\* empty detection set, a raising detector, a missing file or a missing model.
C28_AtMostOneContinuation ==
  [][LET ev == last_event' IN
       /\ StageHandled(ev)
          => /\ Cardinality(RequestsOf(ev)) <= 1
             /\ RequestsOf(ev) # {}
                => /\ \A r \in ResultsOf(ev) : r.msg.success
                   /\ \E r \in ResultsOf(ev) :
                        /\ ev.agent = IMAGE_RECOGNITION_ADDRESS
                           => r.msg.product_name # NoneStr
                        /\ ev.agent = PRICE_SCRAPER_ADDRESS
                           => r.msg.comps > 0
       /\ (ev.type = "CapturedImage" /\ ev.agent = DETECTION_ADDRESS)
          => /\ Cardinality(ev.sends) <= 1
             /\ ev.sends # {}
                => /\ DetectorReturns(ev)
                   /\ ev.prediction.boxes # << >>
                   /\ \A s \in ev.sends : s.msg.type = "DetectionResult"]_vars

\* C28 witness: image recognition has succeeded without a product name and
\* has answered its requester without a request to the price scraper
C28_Witness ==
  /\ StageHandled(last_event)
  /\ last_event.agent = IMAGE_RECOGNITION_ADDRESS
  /\ \E r \in ResultsOf(last_event) :
       r.msg.success /\ r.msg.product_name = NoneStr
  /\ RequestsOf(last_event) = {}

\* the stage requests that the coordinator puts into the network in a step
CoordinatorRequests ==
  {e \in network' \ network :
     e.sender = COORDINATOR /\ e.msg.type \in StageRequestTypes}

\* C29: the coordinator dispatches once per request and never again: the
\* handler of a CompletePipelineRequest makes one send of an
\* ImageRecognitionRequest for the session, which puts exactly that request
\* into the network unless the send raises; no other step of the coordinator
\* (stage result handlers, finalization, the sweep) puts a stage request into
\* the network, also not after a failure or for a stalled session.
C29_DispatchedOnce ==
  [][IF last_event'.type = "CompletePipelineRequest"
       THEN IF last_event'.send_ok
              THEN CoordinatorRequests =
                     {Envelope(IMAGE_RECOGNITION_ADDRESS, COORDINATOR,
                        ImageRecognitionRequestMsg(last_event'.session_id))}
              ELSE CoordinatorRequests = {}
       ELSE CoordinatorRequests = {}]_vars

\* C29 witness: the sweep has removed a stalled session whose request had
\* been dispatched, and no stage request of the coordinator is in the network
C29_Witness ==
  /\ last_event.type = "cleanup_old_sessions"
  /\ last_event.stalled # {}
  /\ \A e \in network : e.sender # COORDINATOR \/ e.msg.type \notin StageRequestTypes


\* C26: when the vision API call of the evaluator raises or the vision model
\* is unavailable, the evaluator reports the failure: it sends a message, and
\* that message is not the EvaluationResult that an empty reply gives.
C26_VisionFailureReported ==
  [][LET ev == last_event' IN
       (/\ ev.type = "DetectionResult"
        /\ ev.agent = AI_EVALUATOR_ADDRESS
        /\ ev.found
        /\ (~gemini_model \/ ev.reply.kind = "api_error"))
       => /\ ev.sends # {}
          /\ \A s \in ev.sends :
               ~(/\ s.msg.type = "EvaluationResult"
                 /\ s.msg.resellable_items = << >>
                 /\ s.msg.gemini_raw_response = EmptyReply)]_vars


\* the ProcessingResult messages on their way to the report coordinator
CropReports == {e \in network : e.msg.type = "ProcessingResult"}

\* C25: two crops that belong to different images or to different sessions
\* never have the same output file name: the crop files that the image
\* processor reports for two different images, or for two different sessions,
\* are different files.
C25_CropNamesDistinct ==
  \A e1, e2 \in CropReports :
    (\/ e1.msg.original_image_path # e2.msg.original_image_path
     \/ e1.msg.session_id # e2.msg.session_id)
    => Range(e1.msg.cropped_files) \cap Range(e2.msg.cropped_files) = {}

\* the counters of a session of the report coordinator
ReportCounters(session_data) ==
  <<session_data.images_processed, session_data.total_objects_found,
    session_data.unique_objects, session_data.cropped_files>>

\* C24: a report is finalized once. After finalize_session has set the status
\* of a session to "completed", no step changes the counters of the session
\* (images_processed, total_objects_found, unique_objects, cropped_files), no
\* step rewrites its report file, and the session is not finalized again.
C24_FinalizedOnce ==
  [][\A session_id \in DOMAIN sessions :
       sessions[session_id].status = "completed" =>
         /\ session_id \in DOMAIN sessions'
         /\ ReportCounters(sessions'[session_id])
              = ReportCounters(sessions[session_id])
         /\ sessions'[session_id].status = "completed"
         /\ sessions'[session_id].end_time = sessions[session_id].end_time
         /\ session_id \in DOMAIN report_files'
         /\ report_files'[session_id] = report_files[session_id]]_vars

\* C23: the report of a session aggregates all of its crop records. Every
\* ProcessingResult that the image processor emits is accepted by the report
\* coordinator: it is appended to processing_results and counted in the
\* images_processed and the cropped_files of its session.
C23_CropRecordsAggregated ==
  [][(/\ last_event'.type = "ProcessingResult"
      /\ last_event'.to = REPORT_COORDINATOR)
     => LET msg == last_event'.msg
        IN /\ processing_results' = Append(processing_results, msg)
           /\ msg.session_id \in DOMAIN sessions'
           /\ msg.session_id \in DOMAIN sessions
           /\ sessions'[msg.session_id].images_processed
                = sessions[msg.session_id].images_processed + 1
           /\ sessions'[msg.session_id].cropped_files
                = sessions[msg.session_id].cropped_files \o msg.cropped_files]_vars

\* C21: session ids are unique for the lifetime of the process. The id
\* generated for an upload to the web API is not the id of a stored
\* ProcessingSession, and the id generated for a StartSystem message is not
\* the id of a stored session of the report coordinator, so that no trigger
\* overwrites the state of an earlier session.
C21_GeneratedIdsUnique ==
  [][/\ last_event'.type = "upload_files"
          => last_event'.session_id \notin DOMAIN processing_sessions
     /\ last_event'.type = "StartSystem"
          => last_event'.session_id \notin DOMAIN sessions]_vars

\* C22: a session id returned by POST /upload or POST /test-pipeline can be
\* looked up: once the endpoint has returned, GET /session/{id} finds the
\* session instead of answering "Session not found".
C22_ReturnedIdFound ==
  [][(/\ last_event'.type \in {"upload_files", "test_pipeline"}
      /\ last_event'.returned)
     => \A session_id \in {last_event'.session_id} :
          get_session_status(session_id)'.status_code = 200]_vars

\* the class names of detection map d at the positions from i on whose crop
\* does not fail, in the order of d
RECURSIVE CroppedClasses(_, _, _)
CroppedClasses(d, crop_fails, i) ==
  IF i > Len(d) THEN << >>
  ELSE (IF i \in crop_fails THEN << >> ELSE <<d[i].v>>)
         \o CroppedClasses(d, crop_fails, i + 1)

\* C31: a crop that fails does not abort the batch. For every filtered
\* detection set and every subset of items whose crop fails, the image
\* processor sends one ProcessingResult whose resellable_objects,
\* cropped_files and processing_summary hold exactly the items whose crop
\* succeeded, with total_objects_processed = len(cropped_files) =
\* len(resellable_objects); the saved files are those of the result.
C31_CropFailureIsOmission ==
  [][LET ev == last_event' IN
       (/\ ev.type = "EvaluationResult"
        /\ ev.agent = IMAGE_PROCESSOR_ADDRESS
        /\ ev.found
        /\ ev.msg.filtered_detections # << >>)
       => LET done == CroppedClasses(ev.msg.filtered_detections,
                                     ev.crop_fails, 1)
          IN /\ Cardinality(ev.sends) = 1
             /\ \A s \in ev.sends :
                  /\ s.to = REPORT_COORDINATOR
                  /\ s.msg.type = "ProcessingResult"
                  /\ s.msg.resellable_objects = done
                  /\ Len(s.msg.cropped_files) = Len(done)
                  /\ \A k \in DOMAIN done :
                       s.msg.cropped_files[k].class_name = done[k]
                  /\ s.msg.total_objects_processed = Len(done)
                  /\ Len(s.msg.processing_summary) = Len(done)
                  /\ \A k \in DOMAIN done :
                       /\ s.msg.processing_summary[k].k = done[k]
                       /\ s.msg.processing_summary[k].v.cropped_file
                            = s.msg.cropped_files[k]
                  /\ cropped_folder' = cropped_folder
                                         \cup Range(s.msg.cropped_files)]_vars

\* C31 witness: of two resellable objects the crop of the first has failed
\* and the crop of the second is in the ProcessingResult
C31_Witness ==
  /\ last_event.type = "EvaluationResult"
  /\ last_event.agent = IMAGE_PROCESSOR_ADDRESS
  /\ last_event.found
  /\ Len(last_event.msg.filtered_detections) = 2
  /\ last_event.crop_fails = {1}
  /\ \E s \in last_event.sends :
       /\ Len(s.msg.cropped_files) = 1
       /\ s.msg.resellable_objects
            = <<last_event.msg.filtered_detections[2].v>>

\* C32: for every box (xmin, ymin, xmax, ymax) with 0 <= xmin <= xmax <= W
\* and 0 <= ymin <= ymax <= H the expanded crop box is the box dilated on
\* each side by floor(0.3 * width) and floor(0.3 * height) and clamped to
\* the image: 0 <= new_xmin <= xmin, xmax <= new_xmax <= W,
\* 0 <= new_ymin <= ymin and ymax <= new_ymax <= H.
C32_ExpandedBoxWithinImage ==
  last_event.type = "crop_and_save_image"
  => LET c == last_event.coords
         e == last_event.expanded_coords
         W == last_event.img_size[1]
         H == last_event.img_size[2]
         bx == CHOOSE b \in 0..MaxSide + 1 :
                 10 * b <= 3 * (c[3] - c[1]) /\ 3 * (c[3] - c[1]) < 10 * (b + 1)
         by == CHOOSE b \in 0..MaxSide + 1 :
                 10 * b <= 3 * (c[4] - c[2]) /\ 3 * (c[4] - c[2]) < 10 * (b + 1)
     IN /\ 0 <= e[1] /\ e[1] <= c[1]
        /\ c[3] <= e[3] /\ e[3] <= W
        /\ 0 <= e[2] /\ e[2] <= c[2]
        /\ c[4] <= e[4] /\ e[4] <= H
        /\ e[1] = (IF c[1] - bx < 0 THEN 0 ELSE c[1] - bx)
        /\ e[2] = (IF c[2] - by < 0 THEN 0 ELSE c[2] - by)
        /\ e[3] = (IF c[3] + bx > W THEN W ELSE c[3] + bx)
        /\ e[4] = (IF c[4] + by > H THEN H ELSE c[4] + by)

\* C32 witness: a box 4 wide and 7 high in the corner of an image 5 wide
\* and 7 high is dilated by 1 to the right and clamped on the other sides
C32_Witness ==
  /\ last_event.type = "crop_and_save_image"
  /\ last_event.img_size = <<5, 7>>
  /\ last_event.coords = <<0, 0, 4, 7>>
  /\ last_event.expanded_coords = <<0, 0, 5, 7>>

\* the key parses into four integers
FourInts(coords_str) ==
  parse_ints(coords_str).ok /\ Len(parse_ints(coords_str).coords) = 4

\* the items of detection map d whose key parses into four integers
RECURSIVE Parseable(_, _)
Parseable(d, i) ==
  IF i > Len(d) THEN << >>
  ELSE (IF FourInts(d[i].k) THEN <<d[i]>> ELSE << >>) \o Parseable(d, i + 1)

\* C33: a key that cannot be parsed into four integers resolves to area 0
\* in the largest-instance filter and is a parse failure in the crop stage:
\* it is skipped, gives no crop record and leaves the crops of the remaining
\* detections as they are without it.
C33_UnparseableKeySkipped ==
  last_event.type = "coords_keys"
  => /\ \A i \in DOMAIN last_event.detections :
          ~FourInts(last_event.detections[i].k) => last_event.areas[i] = 0
     /\ last_event.out = crop_loop(Parseable(last_event.detections, 1), now, {})

\* C34: starting a pipeline records the session and dispatches the first
\* stage, or leaves no trace. After handle_complete_pipeline_request, if the
\* dispatch succeeded the session is in active_sessions, not completed, with
\* steps_completed = ["image_recognition_initiated"], and the request is on
\* its way to the image recognition agent; if the dispatch raised, the
\* session is absent from active_sessions, failed_sessions has grown by 1,
\* completed_sessions is unchanged and a failure CompletePipelineResult has
\* been sent to the requester, and nothing else.
C34_StartRecordsOrLeavesNoTrace ==
  [][last_event'.type = "CompletePipelineRequest"
     => LET s == last_event'.session_id
            failure == {e \in network' :
                          /\ e.to = CLIENT
                          /\ e.msg.type = "CompletePipelineResult"
                          /\ e.msg.session_id = s
                          /\ ~e.msg.success}
            request == {e \in network' :
                          /\ e.to = IMAGE_RECOGNITION_ADDRESS
                          /\ e.msg.type = "ImageRecognitionRequest"
                          /\ e.msg.session_id = s}
        IN IF last_event'.send_ok
             THEN /\ s \in DOMAIN active_sessions'
                  /\ ~active_sessions'[s].completed
                  /\ active_sessions'[s].steps_completed
                       = <<"image_recognition_initiated">>
                  /\ request # {}
                  /\ network' \ network \subseteq request
                  /\ failed_sessions' = failed_sessions
                  /\ completed_sessions' = completed_sessions
             ELSE /\ s \notin DOMAIN active_sessions'
                  /\ failed_sessions' = failed_sessions + 1
                  /\ completed_sessions' = completed_sessions
                  /\ Cardinality(failure) = 1
                  /\ network' \ network \subseteq failure]_vars

\* C34 witness: the dispatch of a request has raised; the store does not
\* hold the id and the failure result is on its way to the requester
C34_Witness ==
  /\ last_event.type = "CompletePipelineRequest"
  /\ ~last_event.send_ok
  /\ last_event.session_id \notin DOMAIN active_sessions
  /\ failed_sessions = 1
  /\ \E e \in network :
       e.to = CLIENT /\ e.msg.session_id = last_event.session_id

\* C35: when a coordinator session is finalized (success or failure), a
\* CompletePipelineResult for that session is sent to the agent that
\* initiated the pipeline: the step on which finalize_pipeline_session
\* composes the result puts it on its way to the requester.
C35_FinalResultSentToInitiator ==
  [][last_result'.type = "CompletePipelineResult"
     => \E e \in network' \ network :
          /\ e.to = CLIENT
          /\ e.msg.type = "CompletePipelineResult"
          /\ e.msg.session_id = last_result'.session_id]_vars

\* C36: the Facebook login agent rate-limits login attempts to at most one
\* per 5 minutes. Two executions of the real login attempt are separated by
\* at least 300 s; a request arriving inside the window while not logged in
\* is answered with a failure result and performs no login call; and every
\* request receives exactly one FacebookLoginResult, addressed to its sender
\* and carrying its agent id and session id.
C36_LoginRateLimited ==
  /\ [](\A i \in DOMAIN login_calls : \A j \in DOMAIN login_calls :
          i < j => login_calls[j] - login_calls[i] >= LOGIN_WINDOW)
  /\ [][last_event'.type = "FacebookLoginRequest"
        => /\ Len(last_event'.sent) = 1
           /\ last_event'.sent[1].type = "FacebookLoginResult"
           /\ last_event'.sent[1].agent_id = last_event'.agent_id
           /\ last_event'.sent[1].session_id = last_event'.session_id
           /\ Envelope(last_event'.sender, FACEBOOK_LOGIN, last_event'.sent[1])
                \in network'
           /\ network' \ network
                \subseteq {Envelope(last_event'.sender, FACEBOOK_LOGIN,
                                    last_event'.sent[1])}
           /\ (/\ login_calls # << >>
               /\ now - login_calls[Len(login_calls)] < LOGIN_WINDOW
               /\ ~last_event'.logged_in)
              => /\ ~last_event'.sent[1].success
                 /\ login_calls' = login_calls]_vars

\* C36 witness: a request inside the window of an earlier login attempt has
\* been refused, and the attempt before it was the second of the run
C36_Witness ==
  /\ last_event.type = "FacebookLoginRequest"
  /\ ~last_event.logged_in
  /\ ~last_event.sent[1].success
  /\ Len(login_calls) = 2
  /\ now - login_calls[2] < LOGIN_WINDOW
  /\ now > login_calls[2]

\* C37: under any interleaving of CapturedImage messages and the periodic
\* sweep of the capture folder, the detector is invoked at most once per
\* image file path and at most one DetectionResult is emitted per path: a
\* path never leaves processed_files, every DetectionResult that the
\* detection agent sends is for a path that its step has just added to
\* processed_files, no step sends two results for one path, and a message
\* for an already-seen path changes no state and sends nothing.
C37_DetectedOncePerPath ==
  [][/\ detection_state.processed_files
          \subseteq detection_state'.processed_files
     /\ last_event'.type \in {"CapturedImage", "process_batch_images"}
          => /\ \A e \in last_event'.sends :
                  /\ e.msg.type = "DetectionResult"
                  /\ e.msg.image_path
                       \in detection_state'.processed_files
                            \ detection_state.processed_files
                  /\ \A d \in last_event'.sends :
                       d.msg.image_path = e.msg.image_path => d = e
             /\ \A e \in network' \ network :
                  e.sender = DETECTION_ADDRESS => e \in last_event'.sends
     /\ (last_event'.type = "CapturedImage" /\ ~last_event'.fresh)
          => /\ detection_state' = detection_state
             /\ last_event'.sends = {}
             /\ network' \subseteq network]_vars

\* C37 witness: a CapturedImage for a path that the detector has already
\* seen, its file being on disk and the model loaded, has been dropped
C37_Witness ==
  /\ last_event.type = "CapturedImage"
  /\ ~last_event.fresh
  /\ last_event.found
  /\ yolo_model
  /\ last_event.sends = {}
  /\ last_event.msg.file_path \in detection_state.processed_files

\* C38: under any interleaving of the web API's trigger message and the
\* sweep of the capture folder, the DetectionResult emitted for an uploaded
\* image carries the session id of the upload that placed the image in the
\* capture folder; the image is never processed under another session id
\* such as "batch_processing".
C38_UploadDetectedUnderItsSession ==
  [][last_event'.type \in {"CapturedImage", "process_batch_images"}
     => \A e \in last_event'.sends :
          \A i \in DOMAIN web_tasks :
            e.msg.image_path = CapturePath(web_tasks[i].session_id)
              => e.msg.session_id = web_tasks[i].session_id]_vars

\* C39: under any interleaving of StartSystem messages, ProcessingResult
\* messages and the timeout check, the final report that finalize_session
\* writes for a session holds one entry for every ProcessingResult accepted
\* for that session: the number of its entries equals the images_processed
\* counter of the session.
C39_FinalReportHoldsEveryResult ==
  [][last_event'.type = "session_timeout_check"
     => \A session_id \in last_event'.finalized :
          Len(report_files'[session_id].entries)
            = sessions'[session_id].images_processed]_vars

\* C40: in the pipeline coordinator every session is counted exactly once.
\* finalize_pipeline_session counts a session in the step that marks it
\* completed, so a session in the store has contributed 1 if it is completed
\* and 0 otherwise; hence every session object that leaves active_sessions,
\* removed by the sweep or replaced by a new request with the same id, is a
\* completed one.
C40_EverySessionCountedOnce ==
  [][\A s \in DOMAIN active_sessions :
       (\/ s \notin DOMAIN active_sessions'
        \/ /\ last_event'.type = "CompletePipelineRequest"
           /\ last_event'.session_id = s)
         => active_sessions[s].completed]_vars

====
